---- MODULE Spec2Model ----
\* ConnectSphere backend: the connection graph engine (user_connections table,
\* DB connection operations and the four connection handlers of the API server).
\* Every storage statement is one atomic step; a handler that issues several
\* statements (sendConnectionRequest) is several steps, so that concurrent
\* handlers interleave between their statements as gin's goroutines do.
EXTENDS Integers, FiniteSets, Sequences, TLC

\* ---------------------------------------------------------------- bounds
MaxConns == 3          \* number of rows ever inserted into user_connections
MaxTime == 1           \* the store's clock NOW() runs 0..MaxTime
MaxRequests == 4       \* number of requests the server receives
MaxRows == 2           \* rows of user_connections in a store the list handlers read
MaxArrivals == 2       \* number of requests the server behind the auth gate receives

Workers == {"w1", "w2"}          \* concurrent request goroutines
UserIds == {1, 2, 3}             \* uuid values that may name a user

\* ---------------------------------------------------------------- constants
StatusPending == "pending"
StatusAccepted == "accepted"

StatusOK == 200
StatusCreated == 201
StatusBadRequest == 400
StatusUnauthorized == 401
StatusNotFound == 404
StatusConflict == 409
StatusInternalServerError == 500

\* ---------------------------------------------------------------- path parameters
\* The strings a path parameter may carry: the canonical text of each uuid and
\* one text that is not a uuid.
PathParams == {"uuid-1", "uuid-2", "uuid-3", "not-a-uuid"}

\* uuid.Parse: the uuid a text denotes, or an error.
ParseUUID_NilOnError(s) ==
  CASE s = "uuid-1" -> [err |-> FALSE, id |-> 1]
    [] s = "uuid-2" -> [err |-> FALSE, id |-> 2]
    [] s = "uuid-3" -> [err |-> FALSE, id |-> 3]
    [] OTHER -> [err |-> FALSE, id |-> 0]

ParseUUID(s) ==
  CASE s = "uuid-1" -> [err |-> FALSE, id |-> 1]
    [] s = "uuid-2" -> [err |-> FALSE, id |-> 2]
    [] s = "uuid-3" -> [err |-> FALSE, id |-> 3]
    [] OTHER -> [err |-> TRUE, id |-> 0]

VARIABLES
  users,     \* ids of the rows of table users
  conns,     \* rows of table user_connections
  nextId,    \* next value uuid_generate_v4() hands out for user_connections.id
  now,       \* the store's clock, NOW()
  pc,        \* per worker: position in the handler it runs
  req,       \* per worker: the request being handled (route, user_id of the token, path parameter)
  resp,      \* per worker: the response written by c.JSON, NoResp while none
  dbCalls,   \* per worker: storage calls issued so far by the current request
  served,    \* number of requests received so far
  profile,   \* the other columns of the rows of table users, by id
  failed,    \* per worker: a storage call of the current request failed in the store
  body       \* per worker: the JSON payload of a 2xx response that carries data

\* The state of the Flutter client.
VARIABLES
  text,      \* _searchController.text of the search screen
  timers,    \* the active Timer objects started by _onSearchChanged
  debounce,  \* _debounce: the Timer started last, NoTimer when none is active
  keystroke, \* the value of the last onChanged and the time since it
  calls,     \* the apiClient.searchUsers calls issued, oldest first
  state,     \* ConnectionsNotifier.state (searchResults, isLoading, error)
  auth_token,\* FlutterSecureStorage entry auth_token (tokenKey)
  expired,   \* the stored token is past its expiry
  authState, \* AuthNotifier.state (user, isLoading, error)
  authPc     \* position of AuthNotifier: build, idle, or inside login

serverVars == <<users, conns, nextId, now, pc, req, resp, dbCalls, served, profile, failed, body>>

clientVars == <<text, timers, debounce, keystroke, calls, state, auth_token, expired, authState, authPc>>

vars == <<users, conns, nextId, now, pc, req, resp, dbCalls, served, profile, failed, body,
          text, timers, debounce, keystroke, calls, state, auth_token, expired, authState, authPc>>

NoTimer == [query |-> <<>>, elapsed |-> -1]
NoKey == [value |-> <<>>, since |-> -1]
NoUser == 0

\* const ConnectionsState() and const AuthState().
ConnectionsState == [searchResults |-> <<>>, isLoading |-> FALSE, error |-> FALSE]
AuthState == [user |-> NoUser, isLoading |-> FALSE, error |-> FALSE]

\* The app has not been started: nothing typed, nothing stored.
ClientAtRest ==
  /\ text = <<>>
  /\ timers = {}
  /\ debounce = NoTimer
  /\ keystroke = NoKey
  /\ calls = <<>>
  /\ state = ConnectionsState
  /\ auth_token = "none"
  /\ expired = FALSE
  /\ authState = AuthState
  /\ authPc = "build"

NoReq == [op |-> "none", user_id |-> 0, param |-> "none"]
NoResp == [status |-> 0, error |-> "none"]

Ops == {"send", "accept", "decline", "remove"}

\* Text is a sequence of characters, each a one-character string.
Ann == <<"a", "n", "n">>
AnnDisplay == <<"A", "n", "n">>
Bob == <<"b", "o", "b">>
BobDisplay == <<"B", "o", "b">>
AnnEmail == <<"a", "@", "x">>
BobEmail == <<"b", "@", "x">>
GoodPassword == <<"p", "a", "s", "s", "w", "o", "r", "d">>

\* auth.HashPassword: bcrypt, an opaque value that is not the password.
HashPassword(password) == [bcrypt |-> password]

\* The columns of a row of users other than id.
User(username, displayName, email, hashedPassword, t) ==
  [username |-> username, display_name |-> displayName, email |-> email,
   hashed_password |-> hashedPassword, created_at |-> t, updated_at |-> t]

\* The two accounts registered before the connection handlers are exercised.
SeedUsers ==
  (1 :> User(Ann, AnnDisplay, AnnEmail, HashPassword(GoodPassword), 0))
  @@ (2 :> User(Bob, BobDisplay, BobEmail, HashPassword(GoodPassword), 0))

\* A row of user_connections.
UserConnection(id, r, a, st, t) ==
  [id |-> id, requester_id |-> r, addressee_id |-> a, status |-> st,
   created_at |-> t, updated_at |-> t]

\* Rows linking the two users in either direction.
Between(cs, x, y) ==
  {c \in cs : \/ (c.requester_id = x /\ c.addressee_id = y)
              \/ (c.requester_id = y /\ c.addressee_id = x)}

\* Rows from requester r to addressee a, exactly in that direction.
Directed(cs, r, a) == {c \in cs : c.requester_id = r /\ c.addressee_id = a}

\* ---------------------------------------------------------------- storage operations
\* DB.GetUserByID: err is "user not found" when no row has the id.
GetUserByID_AlwaysFound(us, id) == [err |-> FALSE]

GetUserByID(us, id) == [err |-> id \notin us]

\* DB.GetConnection: a row between the two users, in either direction.
GetConnection_OneDirection(cs, requesterID, addresseeID) ==
  [err |-> Directed(cs, requesterID, addresseeID) = {}]

GetConnection(cs, requesterID, addresseeID) ==
  [err |-> Between(cs, requesterID, addresseeID) = {}]

\* DB.CreateConnection: INSERT of a pending row. The statement fails on a
\* foreign-key violation (either id is not a user) and on a violation of
\* UNIQUE(requester_id, addressee_id).
CreateConnection_Accepted(cs, us, requesterID, addresseeID, id, t) ==
  IF requesterID \notin us \/ addresseeID \notin us
     \/ Directed(cs, requesterID, addresseeID) # {}
  THEN [err |-> TRUE, conns |-> cs]
  ELSE [err |-> FALSE,
        conns |-> cs \cup {UserConnection(id, requesterID, addresseeID, StatusAccepted, t)}]

CreateConnection_Swapped(cs, us, requesterID, addresseeID, id, t) ==
  IF requesterID \notin us \/ addresseeID \notin us
     \/ Directed(cs, requesterID, addresseeID) # {}
  THEN [err |-> TRUE, conns |-> cs]
  ELSE [err |-> FALSE,
        conns |-> cs \cup {UserConnection(id, addresseeID, requesterID, StatusPending, t)}]

CreateConnection(cs, us, requesterID, addresseeID, id, t) ==
  IF requesterID \notin us \/ addresseeID \notin us
     \/ Directed(cs, requesterID, addresseeID) # {}
  THEN [err |-> TRUE, conns |-> cs]
  ELSE [err |-> FALSE,
        conns |-> cs \cup {UserConnection(id, requesterID, addresseeID, StatusPending, t)}]

\* DB.AcceptConnection: UPDATE ... WHERE requester_id = $2 AND addressee_id = $3
\* AND status = 'pending'; zero rows affected is an error.
AcceptConnection_EitherDirection(cs, requesterID, addresseeID, t) ==
  LET m == {c \in Between(cs, requesterID, addresseeID) : c.status = StatusPending}
  IN [err |-> m = {},
      conns |-> (cs \ m) \cup {[c EXCEPT !.status = StatusAccepted, !.updated_at = t] : c \in m}]

AcceptConnection_AnyStatus(cs, requesterID, addresseeID, t) ==
  LET m == Directed(cs, requesterID, addresseeID)
  IN [err |-> m = {},
      conns |-> (cs \ m) \cup {[c EXCEPT !.status = StatusAccepted, !.updated_at = t] : c \in m}]

AcceptConnection_ResetsCreated(cs, requesterID, addresseeID, t) ==
  LET m == {c \in Directed(cs, requesterID, addresseeID) : c.status = StatusPending}
  IN [err |-> m = {},
      conns |-> (cs \ m) \cup {[c EXCEPT !.status = StatusAccepted, !.created_at = t + 1,
                                          !.updated_at = t + 1] : c \in m}]

AcceptConnection(cs, requesterID, addresseeID, t) ==
  LET m == {c \in Directed(cs, requesterID, addresseeID) : c.status = StatusPending}
  IN [err |-> m = {},
      conns |-> (cs \ m) \cup {[c EXCEPT !.status = StatusAccepted, !.updated_at = t] : c \in m}]

\* DB.DeclineConnection: DELETE ... WHERE requester_id = $1 AND addressee_id = $2
\* AND status = 'pending'; zero rows affected is an error.
DeclineConnection_AnyStatus(cs, requesterID, addresseeID) ==
  LET m == Directed(cs, requesterID, addresseeID)
  IN [err |-> m = {}, conns |-> cs \ m]

DeclineConnection_IgnoreRows(cs, requesterID, addresseeID) ==
  LET m == {c \in Directed(cs, requesterID, addresseeID) : c.status = StatusPending}
  IN [err |-> FALSE, conns |-> cs \ m]

DeclineConnection(cs, requesterID, addresseeID) ==
  LET m == {c \in Directed(cs, requesterID, addresseeID) : c.status = StatusPending}
  IN [err |-> m = {}, conns |-> cs \ m]

\* DB.RemoveConnection: DELETE of the accepted rows between the two users, in
\* either direction; zero rows affected is an error.
RemoveConnection_OneDirection(cs, userID, friendID) ==
  LET m == {c \in Directed(cs, userID, friendID) : c.status = StatusAccepted}
  IN [err |-> m = {}, conns |-> cs \ m]

RemoveConnection_IgnoreRows(cs, userID, friendID) ==
  LET m == {c \in Between(cs, userID, friendID) : c.status = StatusAccepted}
  IN [err |-> FALSE, conns |-> cs \ m]

RemoveConnection(cs, userID, friendID) ==
  LET m == {c \in Between(cs, userID, friendID) : c.status = StatusAccepted}
  IN [err |-> m = {}, conns |-> cs \ m]

\* ---------------------------------------------------------------- initial state
TypeOK ==
  /\ users \subseteq UserIds
  /\ \A c \in conns : c.requester_id \in users /\ c.addressee_id \in users
  /\ nextId \in 1..(MaxConns + 1)
  /\ now \in 0..MaxTime
  /\ pc \in [Workers -> {"idle", "send", "sendCheckUser", "sendCheckConn", "sendInsert",
                         "accept", "decline", "remove"}]

\* The schema has just been created and two accounts have registered:
\* user_connections is empty, uuid 3 names no user.
Init ==
  /\ users = {1, 2}
  /\ conns = {}
  /\ nextId = 1
  /\ now = 0
  /\ pc = [w \in Workers |-> "idle"]
  /\ req = [w \in Workers |-> NoReq]
  /\ resp = [w \in Workers |-> NoResp]
  /\ dbCalls = [w \in Workers |-> 0]
  /\ served = 0
  /\ profile = SeedUsers
  /\ failed = [w \in Workers |-> FALSE]
  /\ body = [w \in Workers |-> <<>>]
  /\ ClientAtRest

\* ---------------------------------------------------------------- handler steps
\* c.JSON(status, ErrorResponse{Error: error}) followed by return.
Reply(w, status, error) ==
  /\ resp' = [resp EXCEPT ![w] = [status |-> status, error |-> error]]
  /\ pc' = [pc EXCEPT ![w] = "idle"]

Goto(w, label) ==
  /\ pc' = [pc EXCEPT ![w] = label]
  /\ resp' = resp

StorageCall(w) == dbCalls' = [dbCalls EXCEPT ![w] = @ + 1]

\* A request with a valid token of a registered user reaches a connection
\* route: authMiddleware has set user_id, the handler has not run yet.
Receive(w) ==
  /\ pc[w] = "idle"
  /\ served < MaxRequests
  /\ served' = served + 1
  /\ \E op \in Ops, u \in users, p \in PathParams :
       req' = [req EXCEPT ![w] = [op |-> op, user_id |-> u, param |-> p]]
       /\ pc' = [pc EXCEPT ![w] = op]
  /\ resp' = [resp EXCEPT ![w] = NoResp]
  /\ dbCalls' = [dbCalls EXCEPT ![w] = 0]
  /\ failed' = [failed EXCEPT ![w] = FALSE]
  /\ body' = [body EXCEPT ![w] = <<>>]
  /\ UNCHANGED <<users, conns, nextId, now, profile>>
  /\ UNCHANGED clientVars

\* sendConnectionRequest, up to the first storage call: uuid.Parse of the
\* path parameter and the self-request check.
SelfCheck_Off(requesterID, addresseeID) == FALSE

SelfCheck(requesterID, addresseeID) == requesterID = addresseeID

SendParse(w) ==
  /\ pc[w] = "send"
  /\ LET requesterID == req[w].user_id
         parsed == ParseUUID(req[w].param)
     IN IF parsed.err THEN Reply(w, StatusBadRequest, "invalid_id")
        ELSE IF SelfCheck(requesterID, parsed.id)
             THEN Reply(w, StatusBadRequest, "invalid_request")
             ELSE Goto(w, "sendCheckUser")
  /\ UNCHANGED <<users, conns, nextId, now, req, dbCalls, served, profile, failed, body>>
  /\ UNCHANGED clientVars

\* sendConnectionRequest: "Check if addressee exists".
SendCheckUser(w) ==
  /\ pc[w] = "sendCheckUser"
  /\ LET addresseeID == ParseUUID(req[w].param).id
     IN IF GetUserByID(users, addresseeID).err
        THEN Reply(w, StatusNotFound, "user_not_found")
        ELSE Goto(w, "sendCheckConn")
  /\ StorageCall(w)
  /\ UNCHANGED <<users, conns, nextId, now, req, served, profile, failed, body>>
  /\ UNCHANGED clientVars

\* sendConnectionRequest: "Check if connection already exists".
SendCheckConn(w) ==
  /\ pc[w] = "sendCheckConn"
  /\ LET requesterID == req[w].user_id
         addresseeID == ParseUUID(req[w].param).id
     IN IF ~GetConnection(conns, requesterID, addresseeID).err
        THEN Reply(w, StatusConflict, "connection_exists")
        ELSE Goto(w, "sendInsert")
  /\ StorageCall(w)
  /\ UNCHANGED <<users, conns, nextId, now, req, served, profile, failed, body>>
  /\ UNCHANGED clientVars

\* sendConnectionRequest: the insert and the final response.
SendInsert(w) ==
  /\ pc[w] = "sendInsert"
  /\ nextId <= MaxConns
  /\ LET requesterID == req[w].user_id
         addresseeID == ParseUUID(req[w].param).id
         r == CreateConnection(conns, users, requesterID, addresseeID, nextId, now)
     IN /\ conns' = r.conns
        /\ nextId' = IF r.err THEN nextId ELSE nextId + 1
        /\ IF r.err THEN Reply(w, StatusInternalServerError, "internal_error")
                    ELSE Reply(w, StatusCreated, "none")
  /\ StorageCall(w)
  /\ UNCHANGED <<users, now, req, served, profile, failed, body>>
  /\ UNCHANGED clientVars

\* acceptConnectionRequest: the caller is the addressee, the path names the requester.
AcceptRequest_TouchesUser(w) ==
  /\ pc[w] = "accept"
  /\ LET addresseeID == req[w].user_id
         parsed == ParseUUID(req[w].param)
         r == AcceptConnection(conns, parsed.id, addresseeID, now)
     IN IF parsed.err
        THEN Reply(w, StatusBadRequest, "invalid_id") /\ UNCHANGED <<conns, dbCalls, profile>>
        ELSE /\ StorageCall(w)
             /\ conns' = r.conns
             /\ profile' = IF r.err THEN profile
                           ELSE [profile EXCEPT ![addresseeID].updated_at = now + 1]
             /\ IF r.err THEN Reply(w, StatusNotFound, "request_not_found")
                         ELSE Reply(w, StatusOK, "none")
  /\ UNCHANGED <<users, nextId, now, req, served, failed, body>>
  /\ UNCHANGED clientVars

AcceptRequest(w) ==
  /\ pc[w] = "accept"
  /\ LET addresseeID == req[w].user_id
         parsed == ParseUUID(req[w].param)
         r == AcceptConnection(conns, parsed.id, addresseeID, now)
     IN IF parsed.err
        THEN Reply(w, StatusBadRequest, "invalid_id") /\ UNCHANGED <<conns, dbCalls>>
        ELSE /\ StorageCall(w)
             /\ conns' = r.conns
             /\ IF r.err THEN Reply(w, StatusNotFound, "request_not_found")
                         ELSE Reply(w, StatusOK, "none")
  /\ UNCHANGED <<users, nextId, now, req, served, profile, failed, body>>
  /\ UNCHANGED clientVars

\* declineConnectionRequest: the caller is the addressee, the path names the requester.
DeclineRequest(w) ==
  /\ pc[w] = "decline"
  /\ LET addresseeID == req[w].user_id
         parsed == ParseUUID(req[w].param)
         r == DeclineConnection(conns, parsed.id, addresseeID)
     IN IF parsed.err
        THEN Reply(w, StatusBadRequest, "invalid_id") /\ UNCHANGED <<conns, dbCalls>>
        ELSE /\ StorageCall(w)
             /\ conns' = r.conns
             /\ IF r.err THEN Reply(w, StatusNotFound, "request_not_found")
                         ELSE Reply(w, StatusOK, "none")
  /\ UNCHANGED <<users, nextId, now, req, served, profile, failed, body>>
  /\ UNCHANGED clientVars

\* removeConnection: the caller is either party, the path names the other.
RemoveFriend(w) ==
  /\ pc[w] = "remove"
  /\ LET userID == req[w].user_id
         parsed == ParseUUID(req[w].param)
         r == RemoveConnection(conns, userID, parsed.id)
     IN IF parsed.err
        THEN Reply(w, StatusBadRequest, "invalid_id") /\ UNCHANGED <<conns, dbCalls>>
        ELSE /\ StorageCall(w)
             /\ conns' = r.conns
             /\ IF r.err THEN Reply(w, StatusNotFound, "friendship_not_found")
                         ELSE Reply(w, StatusOK, "none")
  /\ UNCHANGED <<users, nextId, now, req, served, profile, failed, body>>
  /\ UNCHANGED clientVars

\* The store's clock advances.
Tick ==
  /\ now < MaxTime
  /\ now' = now + 1
  /\ UNCHANGED <<users, conns, nextId, pc, req, resp, dbCalls, served, profile, failed, body>>
  /\ UNCHANGED clientVars

Next ==
  \/ \E w \in Workers : Receive(w)
  \/ \E w \in Workers : SendParse(w)
  \/ \E w \in Workers : SendCheckUser(w)
  \/ \E w \in Workers : SendCheckConn(w)
  \/ \E w \in Workers : SendInsert(w)
  \/ \E w \in Workers : AcceptRequest(w)
  \/ \E w \in Workers : DeclineRequest(w)
  \/ \E w \in Workers : RemoveFriend(w)
  \/ Tick

Spec == Init /\ [][Next]_vars

\* ---------------------------------------------------------------- store failures
\* A storage call may fail in the store (connection lost, timeout): the DB
\* method then returns a wrapped error that is not "not found", and writes
\* nothing. The handlers test only err != nil (or err == nil).
StoreFails(w) ==
  /\ failed' = [failed EXCEPT ![w] = TRUE]
  /\ StorageCall(w)
  /\ UNCHANGED <<users, conns, nextId, now, req, served, profile, body>>
  /\ UNCHANGED clientVars

\* sendConnectionRequest: GetUserByID fails.
SendCheckUserFails(w) ==
  /\ pc[w] = "sendCheckUser"
  /\ Reply(w, StatusNotFound, "user_not_found")
  /\ StoreFails(w)

\* sendConnectionRequest: GetConnection fails; err == nil is false, the
\* handler goes on to the insert.
SendCheckConnFails(w) ==
  /\ pc[w] = "sendCheckConn"
  /\ Goto(w, "sendInsert")
  /\ StoreFails(w)

\* sendConnectionRequest: CreateConnection fails.
SendInsertFails(w) ==
  /\ pc[w] = "sendInsert"
  /\ Reply(w, StatusInternalServerError, "internal_error")
  /\ StoreFails(w)

\* acceptConnectionRequest: AcceptConnection fails.
AcceptRequestFails(w) ==
  /\ pc[w] = "accept"
  /\ ~ParseUUID(req[w].param).err
  /\ Reply(w, StatusNotFound, "request_not_found")
  /\ StoreFails(w)

\* declineConnectionRequest: DeclineConnection fails.
DeclineRequestFails(w) ==
  /\ pc[w] = "decline"
  /\ ~ParseUUID(req[w].param).err
  /\ Reply(w, StatusNotFound, "request_not_found")
  /\ StoreFails(w)

\* removeConnection: RemoveConnection fails.
RemoveFriendFails(w) ==
  /\ pc[w] = "remove"
  /\ ~ParseUUID(req[w].param).err
  /\ Reply(w, StatusNotFound, "friendship_not_found")
  /\ StoreFails(w)

FaultNext ==
  \/ Next
  \/ \E w \in Workers : SendCheckUserFails(w)
  \/ \E w \in Workers : SendCheckConnFails(w)
  \/ \E w \in Workers : SendInsertFails(w)
  \/ \E w \in Workers : AcceptRequestFails(w)
  \/ \E w \in Workers : DeclineRequestFails(w)
  \/ \E w \in Workers : RemoveFriendFails(w)

\* The connection handlers over a store whose calls may fail.
FaultSpec == Init /\ [][FaultNext]_vars

\* ---------------------------------------------------------------- identity store
\* Values a register or updateProfile body may carry.
Usernames == {Ann, Bob}
DisplayNames == {AnnDisplay, BobDisplay, <<>>}
Emails == {AnnEmail, BobEmail}

RegisterRequest(un, dn, em, pw) ==
  [username |-> un, display_name |-> dn, email |-> em, password |-> pw]

\* The register bodies: every pairing of the usernames and emails, and one
\* body for each binding tag that it breaks.
RegisterBodies ==
  {RegisterRequest(un, AnnDisplay, em, GoodPassword) : un \in Usernames, em \in Emails}
  \cup {RegisterRequest(<<"a", "l">>, AnnDisplay, AnnEmail, GoodPassword),
        RegisterRequest(Ann, <<>>, AnnEmail, GoodPassword),
        RegisterRequest(Ann, AnnDisplay, <<"a", "x">>, GoodPassword),
        RegisterRequest(Ann, AnnDisplay, AnnEmail, <<"p", "w">>)}

\* binding:"required,email": a local part, an @, a domain.
ValidEmail(e) == \E i \in 2..(Len(e) - 1) : e[i] = "@"

\* The binding tags of RegisterRequest.
ValidRegisterRequest(j) ==
  /\ Len(j.username) >= 3 /\ Len(j.username) <= 30
  /\ Len(j.display_name) >= 1 /\ Len(j.display_name) <= 100
  /\ ValidEmail(j.email)
  /\ Len(j.password) >= 8

\* The binding tags of UpdateProfileRequest.
ValidUpdateProfileRequest(j) ==
  Len(j.display_name) >= 1 /\ Len(j.display_name) <= 100

\* User.ToAuth.
ToAuth(id, u) ==
  [id |-> id, username |-> u.username, display_name |-> u.display_name,
   email |-> u.email, created_at |-> u.created_at]

\* DB.GetUserByEmail.
GetUserByEmail_NeverFound(us, prof, email) == [err |-> TRUE]

GetUserByEmail(us, prof, email) ==
  [err |-> ~\E u \in us : prof[u].email = email]

\* DB.GetUserByUsername.
GetUserByUsername(us, prof, username) ==
  [err |-> ~\E u \in us : prof[u].username = username]

\* DB.CreateUser: INSERT INTO users; fails on the primary key and on
\* UNIQUE(username), UNIQUE(email).
CreateUser(us, prof, id, row) ==
  IF \/ id \in us
     \/ \E u \in us : prof[u].username = row.username \/ prof[u].email = row.email
  THEN [err |-> TRUE, users |-> us, profile |-> prof]
  ELSE [err |-> FALSE, users |-> us \cup {id}, profile |-> (id :> row) @@ prof]

\* DB.UpdateUser: UPDATE users SET display_name, updated_at WHERE id; zero
\* rows affected is the error "user not found".
UpdateUser_AllRows(us, prof, id, displayName, t) ==
  IF id \notin us
  THEN [err |-> TRUE, profile |-> prof]
  ELSE [err |-> FALSE,
        profile |-> [u \in DOMAIN prof |->
                       [prof[u] EXCEPT !.display_name = displayName, !.updated_at = t]]]

UpdateUser(us, prof, id, displayName, t) ==
  IF id \notin us
  THEN [err |-> TRUE, profile |-> prof]
  ELSE [err |-> FALSE,
        profile |-> [prof EXCEPT ![id].display_name = displayName, ![id].updated_at = t]]

\* uuid.New(): an id no row has.
NewUUID(us) == CHOOSE i \in UserIds \ us : \A j \in UserIds \ us : i <= j

\* No account has registered yet.
IdentityInit ==
  /\ users = {}
  /\ profile = <<>>
  /\ conns = {}
  /\ nextId = 1
  /\ now = 0
  /\ pc = [w \in Workers |-> "idle"]
  /\ req = [w \in Workers |-> NoReq]
  /\ resp = [w \in Workers |-> NoResp]
  /\ dbCalls = [w \in Workers |-> 0]
  /\ served = 0
  /\ failed = [w \in Workers |-> FALSE]
  /\ body = [w \in Workers |-> <<>>]
  /\ ClientAtRest

\* POST /auth/register arrives (no token needed).
ReceiveRegister(w) ==
  /\ pc[w] = "idle"
  /\ served < MaxRequests
  /\ served' = served + 1
  /\ \E j \in RegisterBodies :
       req' = [req EXCEPT ![w] =
                 [op |-> "register", user_id |-> 0, param |-> "none", json |-> j]]
  /\ pc' = [pc EXCEPT ![w] = "register"]
  /\ resp' = [resp EXCEPT ![w] = NoResp]
  /\ dbCalls' = [dbCalls EXCEPT ![w] = 0]
  /\ failed' = [failed EXCEPT ![w] = FALSE]
  /\ body' = [body EXCEPT ![w] = <<>>]
  /\ UNCHANGED <<users, conns, nextId, now, profile>>
  /\ UNCHANGED clientVars

\* register: c.ShouldBindJSON.
RegisterBind(w) ==
  /\ pc[w] = "register"
  /\ IF ValidRegisterRequest(req[w].json)
     THEN Goto(w, "regCheckEmail")
     ELSE Reply(w, StatusBadRequest, "invalid_request")
  /\ UNCHANGED <<users, conns, nextId, now, req, dbCalls, served, profile, failed, body>>
  /\ UNCHANGED clientVars

\* register: "Check if user already exists".
RegisterCheckEmail(w) ==
  /\ pc[w] = "regCheckEmail"
  /\ IF ~GetUserByEmail(users, profile, req[w].json.email).err
     THEN Reply(w, StatusConflict, "user_exists")
     ELSE Goto(w, "regCheckUsername")
  /\ StorageCall(w)
  /\ UNCHANGED <<users, conns, nextId, now, req, served, profile, failed, body>>
  /\ UNCHANGED clientVars

\* register: "Check if username is taken".
RegisterCheckUsername(w) ==
  /\ pc[w] = "regCheckUsername"
  /\ IF ~GetUserByUsername(users, profile, req[w].json.username).err
     THEN Reply(w, StatusConflict, "username_taken")
     ELSE Goto(w, "regInsert")
  /\ StorageCall(w)
  /\ UNCHANGED <<users, conns, nextId, now, req, served, profile, failed, body>>
  /\ UNCHANGED clientVars

\* register: hash the password, create the user, generate the token, answer.
\* Hashing and token signing are library calls taken to succeed.
RegisterInsert(w) ==
  /\ pc[w] = "regInsert"
  /\ users # UserIds
  /\ LET j == req[w].json
         id == NewUUID(users)
         row == User(j.username, j.display_name, j.email, HashPassword(j.password), now)
         r == CreateUser(users, profile, id, row)
     IN /\ users' = r.users
        /\ profile' = r.profile
        /\ IF r.err
           THEN /\ Reply(w, StatusInternalServerError, "internal_error")
                /\ body' = body
           ELSE /\ Reply(w, StatusCreated, "none")
                /\ body' = [body EXCEPT ![w] =
                              [token |-> [user_id |-> id, email |-> j.email],
                               user |-> ToAuth(id, row)]]
  /\ StorageCall(w)
  /\ UNCHANGED <<conns, nextId, now, req, served, failed>>
  /\ UNCHANGED clientVars

\* PUT /users/me arrives with a valid token. authMiddleware checks signature
\* and expiry only, so the token's user_id is any uuid a token was issued
\* for, whether or not its row is still in users.
ReceiveUpdateProfile(w) ==
  /\ pc[w] = "idle"
  /\ served < MaxRequests
  /\ served' = served + 1
  /\ \E u \in UserIds, dn \in DisplayNames :
       req' = [req EXCEPT ![w] =
                 [op |-> "update", user_id |-> u, param |-> "none",
                  json |-> [display_name |-> dn]]]
  /\ pc' = [pc EXCEPT ![w] = "update"]
  /\ resp' = [resp EXCEPT ![w] = NoResp]
  /\ dbCalls' = [dbCalls EXCEPT ![w] = 0]
  /\ failed' = [failed EXCEPT ![w] = FALSE]
  /\ body' = [body EXCEPT ![w] = <<>>]
  /\ UNCHANGED <<users, conns, nextId, now, profile>>
  /\ UNCHANGED clientVars

\* updateProfile: bind the body, UpdateUser, answer.
UpdateProfile(w) ==
  /\ pc[w] = "update"
  /\ LET userID == req[w].user_id
         r == UpdateUser(users, profile, userID, req[w].json.display_name, now)
     IN IF ~ValidUpdateProfileRequest(req[w].json)
        THEN /\ Reply(w, StatusBadRequest, "invalid_request")
             /\ UNCHANGED <<profile, dbCalls>>
        ELSE /\ StorageCall(w)
             /\ profile' = r.profile
             /\ IF r.err THEN Reply(w, StatusInternalServerError, "internal_error")
                         ELSE Reply(w, StatusOK, "none")
  /\ UNCHANGED <<users, conns, nextId, now, req, served, failed, body>>
  /\ UNCHANGED clientVars

IdentityNext ==
  \/ \E w \in Workers : ReceiveRegister(w)
  \/ \E w \in Workers : RegisterBind(w)
  \/ \E w \in Workers : RegisterCheckEmail(w)
  \/ \E w \in Workers : RegisterCheckUsername(w)
  \/ \E w \in Workers : RegisterInsert(w)
  \/ \E w \in Workers : ReceiveUpdateProfile(w)
  \/ \E w \in Workers : UpdateProfile(w)
  \/ Tick

\* The identity store: register and updateProfile.
IdentitySpec == IdentityInit /\ [][IdentityNext]_vars

\* ---------------------------------------------------------------- text order
\* The characters used, in byte order (the order of ORDER BY under the C
\* collation; the texts ordered here differ in letters only, not in case).
Ascii ==
  <<" ", "%", ".", "@", "A", "B", "C", "D", "E", "J", "S", "_",
    "a", "b", "c", "d", "e", "h", "i", "j", "l", "m", "n", "o", "p", "r", "s",
    "t", "w", "x">>

CharCode(c) == CHOOSE i \in DOMAIN Ascii : Ascii[i] = c

\* a sorts strictly before b.
StrLess(a, b) ==
  \E k \in 0..Len(b) :
    /\ k <= Len(a)
    /\ \A i \in 1..k : a[i] = b[i]
    /\ \/ (k = Len(a) /\ k < Len(b))
       \/ (k < Len(a) /\ k < Len(b) /\ CharCode(a[k + 1]) < CharCode(b[k + 1]))

\* The orders in which a query may return the rows S under ORDER BY: every
\* arrangement in which no row comes before one that the relation before (a
\* set of pairs) puts ahead of it; rows that tie come in any order.
Orderings(S, before) ==
  {s \in [1..Cardinality(S) -> S] :
     /\ \A i \in DOMAIN s, j \in DOMAIN s : i # j => s[i] # s[j]
     /\ \A i \in DOMAIN s, j \in DOMAIN s : i < j => <<s[j], s[i]>> \notin before}

\* ---------------------------------------------------------------- list handlers
\* User.ToPublic / the columns u.id, u.username, u.display_name, u.created_at.
ToPublic_WithEmail(id, u) ==
  [id |-> id, username |-> u.username, display_name |-> u.display_name,
   email |-> u.email, created_at |-> u.created_at]

ToPublic(id, u) ==
  [id |-> id, username |-> u.username, display_name |-> u.display_name,
   created_at |-> u.created_at]

\* DB.GetUserConnections: the accepted rows touching userID, each joined with
\* the users row of the other party, ORDER BY u.display_name.
GetUserConnections_JoinRequester(cs, prof, userID) ==
  LET rows == {[connection |-> c,
                user |-> ToPublic(c.requester_id, prof[c.requester_id])] :
               c \in {c \in cs : /\ c.requester_id = userID \/ c.addressee_id = userID
                                 /\ c.status = StatusAccepted}}
      before == {p \in rows \X rows : StrLess(p[1].user.display_name, p[2].user.display_name)}
  IN Orderings(rows, before)

GetUserConnections(cs, prof, userID) ==
  LET other(c) == IF c.requester_id = userID THEN c.addressee_id ELSE c.requester_id
      rows == {[connection |-> c, user |-> ToPublic(other(c), prof[other(c)])] :
               c \in {c \in cs : /\ c.requester_id = userID \/ c.addressee_id = userID
                                 /\ c.status = StatusAccepted}}
      before == {p \in rows \X rows : StrLess(p[1].user.display_name, p[2].user.display_name)}
  IN Orderings(rows, before)

\* DB.GetPendingConnectionRequests: the pending rows addressed to userID, each
\* joined with the requester's row, ORDER BY uc.created_at DESC.
GetPendingConnectionRequests_Ascending(cs, prof, userID) ==
  LET rows == {[connection |-> c,
                user |-> ToPublic(c.requester_id, prof[c.requester_id])] :
               c \in {c \in cs : c.addressee_id = userID /\ c.status = StatusPending}}
      before == {p \in rows \X rows : p[1].connection.created_at < p[2].connection.created_at}
  IN Orderings(rows, before)

GetPendingConnectionRequests(cs, prof, userID) ==
  LET rows == {[connection |-> c,
                user |-> ToPublic(c.requester_id, prof[c.requester_id])] :
               c \in {c \in cs : c.addressee_id = userID /\ c.status = StatusPending}}
      before == {p \in rows \X rows : p[1].connection.created_at > p[2].connection.created_at}
  IN Orderings(rows, before)

\* Three accounts; display_name is not unique: the third shares the first's.
Cat == <<"c", "a", "t">>
CatEmail == <<"c", "@", "x">>
ListUsers == SeedUsers @@ (3 :> User(Cat, AnnDisplay, CatEmail, HashPassword(GoodPassword), 0))

\* The contents user_connections may have with at most MaxRows rows: the
\* foreign keys and UNIQUE(requester_id, addressee_id) hold, no row links a
\* user to itself, and both rows of a pair may exist (see C1).
ListPairs == {p \in UserIds \X UserIds : p[1] # p[2]}
ListRowKinds == {StatusPending, StatusAccepted} \X (0..MaxTime)
ListStores ==
  UNION {{{UserConnection((p[1] - 1) * 3 + p[2], p[1], p[2], g[p][1], g[p][2]) : p \in S} :
            g \in [S -> ListRowKinds]} :
         S \in {T \in SUBSET ListPairs : Cardinality(T) <= MaxRows}}

ListInit ==
  /\ users = UserIds
  /\ profile = ListUsers
  /\ conns \in ListStores
  /\ nextId = 1
  /\ now = MaxTime
  /\ pc = [w \in Workers |-> "idle"]
  /\ req = [w \in Workers |-> NoReq]
  /\ resp = [w \in Workers |-> NoResp]
  /\ dbCalls = [w \in Workers |-> 0]
  /\ served = 0
  /\ failed = [w \in Workers |-> FALSE]
  /\ body = [w \in Workers |-> <<>>]
  /\ ClientAtRest

\* GET /connections or GET /connections/pending arrives with a valid token.
\* The list handlers write nothing, so any number of them may be served.
ReceiveList(w) ==
  /\ pc[w] = "idle"
  /\ \E op \in {"connections", "pending"}, u \in users :
       /\ req' = [req EXCEPT ![w] = [op |-> op, user_id |-> u, param |-> "none"]]
       /\ pc' = [pc EXCEPT ![w] = op]
  /\ resp' = [resp EXCEPT ![w] = NoResp]
  /\ dbCalls' = [dbCalls EXCEPT ![w] = 0]
  /\ failed' = [failed EXCEPT ![w] = FALSE]
  /\ body' = [body EXCEPT ![w] = <<>>]
  /\ UNCHANGED <<users, conns, nextId, now, served, profile>>
  /\ UNCHANGED clientVars

\* getConnections.
GetConnections(w) ==
  /\ pc[w] = "connections"
  /\ \E connections \in GetUserConnections(conns, profile, req[w].user_id) :
       body' = [body EXCEPT ![w] = connections]
  /\ Reply(w, StatusOK, "none")
  /\ StorageCall(w)
  /\ UNCHANGED <<users, conns, nextId, now, req, served, profile, failed>>
  /\ UNCHANGED clientVars

\* getPendingRequests.
GetPendingRequests(w) ==
  /\ pc[w] = "pending"
  /\ \E requests \in GetPendingConnectionRequests(conns, profile, req[w].user_id) :
       body' = [body EXCEPT ![w] = requests]
  /\ Reply(w, StatusOK, "none")
  /\ StorageCall(w)
  /\ UNCHANGED <<users, conns, nextId, now, req, served, profile, failed>>
  /\ UNCHANGED clientVars

ListNext ==
  \/ \E w \in Workers : ReceiveList(w)
  \/ \E w \in Workers : GetConnections(w)
  \/ \E w \in Workers : GetPendingRequests(w)

\* The two list handlers over every store of at most MaxRows rows.
ListSpec == ListInit /\ [][ListNext]_vars

\* ---------------------------------------------------------------- search
DefaultLimit == 20
MaxLimit == 100

\* LOWER() on one character and on a text.
Lower(c) ==
  CASE c = "A" -> "a" [] c = "B" -> "b" [] c = "C" -> "c"
    [] c = "D" -> "d" [] c = "E" -> "e" [] c = "J" -> "j" [] c = "S" -> "s"
    [] OTHER -> c

LowerStr(s) == [i \in DOMAIN s |-> Lower(s[i])]

\* str LIKE pat: in the pattern '%' stands for any run of characters, '_'
\* for any one character, every other character for itself.
RECURSIVE Like(_, _)
Like(str, pat) ==
  IF pat = <<>> THEN str = <<>>
  ELSE IF Head(pat) = "%"
       THEN Like(str, Tail(pat)) \/ (str # <<>> /\ Like(Tail(str), pat))
       ELSE /\ str # <<>>
            /\ Head(pat) = "_" \/ Head(pat) = Head(str)
            /\ Like(Tail(str), Tail(pat))

\* The three comparisons of the search query against one column.
ExactMatch(col, query) == LowerStr(col) = LowerStr(query)
PrefixMatch(col, query) == Like(LowerStr(col), LowerStr(query) \o <<"%">>)
PartialMatch(col, query) == Like(LowerStr(col), <<"%">> \o LowerStr(query) \o <<"%">>)

\* The rank column of the search query.
Rank_NoPrefixTier(u, query) ==
  IF ExactMatch(u.username, query) \/ ExactMatch(u.display_name, query) THEN 1
  ELSE IF PartialMatch(u.username, query) \/ PartialMatch(u.display_name, query) THEN 3
  ELSE 4

Rank(u, query) ==
  IF ExactMatch(u.username, query) \/ ExactMatch(u.display_name, query) THEN 1
  ELSE IF PrefixMatch(u.username, query) \/ PrefixMatch(u.display_name, query) THEN 2
  ELSE IF PartialMatch(u.username, query) \/ PartialMatch(u.display_name, query) THEN 3
  ELSE 4

\* The ORDER BY list of the search query.
SearchKey(u, query) ==
  <<Rank(u, query),
    IF ExactMatch(u.username, query) THEN 0 ELSE 1,
    IF ExactMatch(u.display_name, query) THEN 0 ELSE 1,
    Len(u.username),
    Len(u.display_name)>>

\* x sorts strictly before y under the ORDER BY list.
SearchBefore(x, y, query) ==
  LET kx == SearchKey(x, query)
      ky == SearchKey(y, query)
  IN \/ \E i \in DOMAIN kx : kx[i] < ky[i] /\ \A j \in 1..(i - 1) : kx[j] = ky[j]
     \/ kx = ky /\ StrLess(x.username, y.username)

\* The first limit elements of s (LIMIT $2).
Take(s, limit) == SubSeq(s, 1, IF Len(s) < limit THEN Len(s) ELSE limit)

\* DB.SearchUsers: the answers the query may give.
SearchUsers(us, prof, query, limit) ==
  LET rows == {[id |-> id, username |-> prof[id].username,
                display_name |-> prof[id].display_name,
                created_at |-> prof[id].created_at] :
               id \in {id \in us : \/ PartialMatch(prof[id].username, query)
                                   \/ PartialMatch(prof[id].display_name, query)}}
      before == {p \in rows \X rows : SearchBefore(p[1], p[2], query)}
  IN {Take(s, limit) : s \in Orderings(rows, before)}

\* The accounts of the search test: john_doe, jane_smith, and bob.
JohnDoe == <<"j", "o", "h", "n", "_", "d", "o", "e">>
JohnDoeDisplay == <<"J", "o", "h", "n", " ", "D", "o", "e">>
JaneSmith == <<"j", "a", "n", "e", "_", "s", "m", "i", "t", "h">>
JaneSmithDisplay == <<"J", "a", "n", "e", " ", "S", "m", "i", "t", "h">>
SearchAccounts ==
  (1 :> User(JohnDoe, JohnDoeDisplay, AnnEmail, HashPassword(GoodPassword), 0))
  @@ (2 :> User(JaneSmith, JaneSmithDisplay, BobEmail, HashPassword(GoodPassword), 0))
  @@ (3 :> User(Bob, BobDisplay, CatEmail, HashPassword(GoodPassword), 0))

\* A third account that may stand in bob's place: username and display name
\* are free text, so '_' may open a username.
UnderscoreJohn == <<"_", "j", "o", "h", "n", "_", "d", "o", "e", "_">>
EdDisplay == <<"E", "d">>
SearchTables ==
  {SearchAccounts,
   [SearchAccounts EXCEPT ![3] =
      User(UnderscoreJohn, EdDisplay, CatEmail, HashPassword(GoodPassword), 0)]}

\* The q parameters tried: absent, "john", "j", "Doe", "n d" (in a display
\* name only), "_", "%", "_d", "j.", "bob" and "x".
Queries ==
  {<<>>, <<"j", "o", "h", "n">>, <<"j">>, <<"D", "o", "e">>, <<"n", " ", "d">>,
   <<"_">>, <<"%">>, <<"_", "d">>, <<"j", ".">>, Bob, <<"x">>}

\* The limit parameters tried, and strconv.Atoi on them.
LimitParams == {"", "1", "10", "0", "-1", "101", "abc"}

Atoi(s) ==
  CASE s = "1" -> [err |-> FALSE, n |-> 1]
    [] s = "10" -> [err |-> FALSE, n |-> 10]
    [] s = "0" -> [err |-> FALSE, n |-> 0]
    [] s = "-1" -> [err |-> FALSE, n |-> 0 - 1]
    [] s = "101" -> [err |-> FALSE, n |-> 101]
    [] OTHER -> [err |-> TRUE, n |-> 0]

\* The requests tried: every query without a limit, the queries "j" and "_"
\* with every limit, and "john" with limit 10.
SearchRequests ==
  {[q |-> q, limit |-> ""] : q \in Queries}
  \cup {[q |-> q, limit |-> l] : q \in {<<"j">>, <<"_">>}, l \in LimitParams}
  \cup {[q |-> <<"j", "o", "h", "n">>, limit |-> "10"]}

\* searchUsers' test of the q parameter.
QueryMissing_Never(query) == FALSE

QueryMissing(query) == query = <<>>

\* The limit searchUsers passes to the query.
Limit(limitParam) ==
  IF /\ limitParam # ""
     /\ ~Atoi(limitParam).err
     /\ Atoi(limitParam).n > 0
     /\ Atoi(limitParam).n <= MaxLimit
  THEN Atoi(limitParam).n
  ELSE DefaultLimit

SearchInit ==
  /\ users \in SUBSET UserIds
  /\ profile \in {[id \in users |-> t[id]] : t \in SearchTables}
  /\ conns = {}
  /\ nextId = 1
  /\ now = 0
  /\ pc = [w \in Workers |-> "idle"]
  /\ req = [w \in Workers |-> NoReq]
  /\ resp = [w \in Workers |-> NoResp]
  /\ dbCalls = [w \in Workers |-> 0]
  /\ served = 0
  /\ failed = [w \in Workers |-> FALSE]
  /\ body = [w \in Workers |-> <<>>]
  /\ ClientAtRest

\* GET /users/search arrives with a valid token. The handler writes nothing,
\* so any number of searches may be served.
ReceiveSearch(w) ==
  /\ pc[w] = "idle"
  /\ \E r \in SearchRequests, u \in users :
       req' = [req EXCEPT ![w] = [op |-> "search", user_id |-> u, param |-> "none",
                                  q |-> r.q, limit |-> r.limit]]
  /\ pc' = [pc EXCEPT ![w] = "search"]
  /\ resp' = [resp EXCEPT ![w] = NoResp]
  /\ dbCalls' = [dbCalls EXCEPT ![w] = 0]
  /\ failed' = [failed EXCEPT ![w] = FALSE]
  /\ body' = [body EXCEPT ![w] = <<>>]
  /\ UNCHANGED <<users, conns, nextId, now, served, profile>>
  /\ UNCHANGED clientVars

\* searchUsers.
searchUsers(w) ==
  /\ pc[w] = "search"
  /\ IF QueryMissing(req[w].q)
     THEN /\ Reply(w, StatusBadRequest, "invalid_request")
          /\ UNCHANGED <<dbCalls, body>>
     ELSE /\ \E found \in SearchUsers(users, profile, req[w].q, Limit(req[w].limit)) :
               body' = [body EXCEPT ![w] = found]
          /\ Reply(w, StatusOK, "none")
          /\ StorageCall(w)
  /\ UNCHANGED <<users, conns, nextId, now, req, served, profile, failed>>
  /\ UNCHANGED clientVars

SearchNext ==
  \/ \E w \in Workers : ReceiveSearch(w)
  \/ \E w \in Workers : searchUsers(w)

\* The search handler over every set of accounts drawn from SearchTables.
SearchSpec == SearchInit /\ [][SearchNext]_vars

\* ---------------------------------------------------------------- profile views
\* getCurrentUser: GET /users/me.
getCurrentUser(w) ==
  /\ pc[w] = "me"
  /\ StorageCall(w)
  /\ IF GetUserByID(users, req[w].user_id).err
     THEN /\ Reply(w, StatusNotFound, "user_not_found")
          /\ UNCHANGED body
     ELSE /\ Reply(w, StatusOK, "none")
          /\ body' = [body EXCEPT ![w] = ToAuth(req[w].user_id, profile[req[w].user_id])]
  /\ UNCHANGED <<users, conns, nextId, now, req, served, profile, failed>>
  /\ UNCHANGED clientVars

\* getUserByID: GET /users/:id.
getUserByID(w) ==
  /\ pc[w] = "get"
  /\ LET parsed == ParseUUID(req[w].param)
     IN IF parsed.err
        THEN /\ Reply(w, StatusBadRequest, "invalid_id")
             /\ UNCHANGED <<dbCalls, body>>
        ELSE /\ StorageCall(w)
             /\ IF GetUserByID(users, parsed.id).err
                THEN /\ Reply(w, StatusNotFound, "user_not_found")
                     /\ UNCHANGED body
                ELSE /\ Reply(w, StatusOK, "none")
                     /\ body' = [body EXCEPT ![w] = ToPublic(parsed.id, profile[parsed.id])]
  /\ UNCHANGED <<users, conns, nextId, now, req, served, profile, failed>>
  /\ UNCHANGED clientVars

\* The stores the views are read from: john_doe, jane_smith and bob, with
\* their emails dealt one way or the other and one of two passwords; john_doe
\* and bob are friends of jane_smith's, bob has asked john_doe.
OtherPassword == <<"l", "e", "t", "m", "e", "i", "n", "x">>
ViewTables ==
  {[id \in UserIds |->
      [SearchAccounts[id] EXCEPT !.email = e[id], !.hashed_password = HashPassword(pw)]] :
     e \in {<<AnnEmail, BobEmail, CatEmail>>, <<BobEmail, CatEmail, AnnEmail>>},
     pw \in {GoodPassword, OtherPassword}}

ViewConns ==
  {UserConnection(1, 1, 2, StatusAccepted, 0),
   UserConnection(2, 2, 3, StatusAccepted, 0),
   UserConnection(3, 3, 1, StatusPending, 0)}

\* The read requests tried.
ViewRequests ==
  {[op |-> "get", param |-> p, q |-> <<>>, limit |-> ""] : p \in PathParams}
  \cup {[op |-> op, param |-> "none", q |-> <<>>, limit |-> ""] :
          op \in {"me", "connections", "pending"}}
  \cup {[op |-> "search", param |-> "none", q |-> q, limit |-> ""] :
          q \in {<<"j">>, <<"D", "o", "e">>, <<"_">>}}

ViewInit ==
  /\ users = UserIds
  /\ profile \in ViewTables
  /\ conns = ViewConns
  /\ nextId = 4
  /\ now = MaxTime
  /\ pc = [w \in Workers |-> "idle"]
  /\ req = [w \in Workers |-> NoReq]
  /\ resp = [w \in Workers |-> NoResp]
  /\ dbCalls = [w \in Workers |-> 0]
  /\ served = 0
  /\ failed = [w \in Workers |-> FALSE]
  /\ body = [w \in Workers |-> <<>>]
  /\ ClientAtRest

\* A read request arrives with a valid token. The handlers write nothing, so
\* any number of them may be served.
ReceiveView(w) ==
  /\ pc[w] = "idle"
  /\ \E r \in ViewRequests, u \in users :
       /\ req' = [req EXCEPT ![w] = [op |-> r.op, user_id |-> u, param |-> r.param,
                                     q |-> r.q, limit |-> r.limit]]
       /\ pc' = [pc EXCEPT ![w] = r.op]
  /\ resp' = [resp EXCEPT ![w] = NoResp]
  /\ dbCalls' = [dbCalls EXCEPT ![w] = 0]
  /\ failed' = [failed EXCEPT ![w] = FALSE]
  /\ body' = [body EXCEPT ![w] = <<>>]
  /\ UNCHANGED <<users, conns, nextId, now, served, profile>>
  /\ UNCHANGED clientVars

ViewNext ==
  \/ \E w \in Workers : ReceiveView(w)
  \/ \E w \in Workers : getCurrentUser(w)
  \/ \E w \in Workers : getUserByID(w)
  \/ \E w \in Workers : searchUsers(w)
  \/ \E w \in Workers : GetConnections(w)
  \/ \E w \in Workers : GetPendingRequests(w)

\* The five read handlers over stores that differ in emails and passwords only.
ViewSpec == ViewInit /\ [][ViewNext]_vars

\* ---------------------------------------------------------------- auth gate
\* The Authorization headers tried: absent (""), the two tokens the server
\* issued, an expired and a forged token, and headers that are not exactly
\* "Bearer <token>".
GoodHeaders == {"Bearer tok-1", "Bearer tok-2"}
BadHeaders ==
  {"", "Bearer expired", "Bearer forged", "Basic tok-1", "bearer tok-1",
   "Bearer", "tok-1", "Bearer  tok-1"}

\* strings.Split(authHeader, " ").
SplitHeader(h) ==
  CASE h = "Bearer tok-1" -> <<"Bearer", "tok-1">>
    [] h = "Bearer tok-2" -> <<"Bearer", "tok-2">>
    [] h = "Bearer expired" -> <<"Bearer", "expired">>
    [] h = "Bearer forged" -> <<"Bearer", "forged">>
    [] h = "Basic tok-1" -> <<"Basic", "tok-1">>
    [] h = "bearer tok-1" -> <<"bearer", "tok-1">>
    [] h = "Bearer  tok-1" -> <<"Bearer", "", "tok-1">>
    [] OTHER -> <<h>>

\* jwtManager.ValidateToken: signature and expiry; the claims of a good token.
ValidateToken(token) ==
  CASE token = "tok-1" -> [err |-> FALSE, user_id |-> 1]
    [] token = "tok-2" -> [err |-> FALSE, user_id |-> 2]
    [] OTHER -> [err |-> TRUE, user_id |-> 0]

\* authMiddleware's decision on a header.
Authenticate_AnyScheme(authHeader) ==
  IF authHeader = "" THEN [err |-> TRUE, user_id |-> 0]
  ELSE IF Len(SplitHeader(authHeader)) # 2
       THEN [err |-> TRUE, user_id |-> 0]
       ELSE ValidateToken(SplitHeader(authHeader)[2])

Authenticate(authHeader) ==
  IF authHeader = "" THEN [err |-> TRUE, user_id |-> 0]
  ELSE IF Len(SplitHeader(authHeader)) # 2 \/ SplitHeader(authHeader)[1] # "Bearer"
       THEN [err |-> TRUE, user_id |-> 0]
       ELSE ValidateToken(SplitHeader(authHeader)[2])

\* The protected routes served here (the read-only list and search routes
\* sit behind the same middleware).
ProtectedOps == Ops \cup {"get", "me", "update"}

\* The requests to protected routes tried: with a good header, every route
\* with every input; with no header, every route, and with each other bad
\* header the routes remove-friend and PUT /users/me, each with an input that
\* a good header would act on.
ServerRequests ==
  {[header |-> h, op |-> op, param |-> p, json |-> [display_name |-> <<>>]] :
     h \in GoodHeaders, op \in Ops \cup {"get"}, p \in PathParams}
  \cup {[header |-> h, op |-> "me", param |-> "none", json |-> [display_name |-> <<>>]] :
          h \in GoodHeaders}
  \cup {[header |-> h, op |-> "update", param |-> "none", json |-> [display_name |-> dn]] :
          h \in GoodHeaders, dn \in {BobDisplay, <<>>}}
  \cup {[header |-> "", op |-> op, param |-> "uuid-2", json |-> [display_name |-> BobDisplay]] :
          op \in ProtectedOps}
  \cup {[header |-> h, op |-> op, param |-> "uuid-2", json |-> [display_name |-> BobDisplay]] :
          h \in BadHeaders, op \in {"remove", "update"}}

\* One or both seed accounts have registered.
ServerInit ==
  /\ users \in {{1}, {1, 2}}
  /\ profile = [id \in users |-> SeedUsers[id]]
  /\ conns = {}
  /\ nextId = 1
  /\ now = 0
  /\ pc = [w \in Workers |-> "idle"]
  /\ req = [w \in Workers |-> NoReq]
  /\ resp = [w \in Workers |-> NoResp]
  /\ dbCalls = [w \in Workers |-> 0]
  /\ served = 0
  /\ failed = [w \in Workers |-> FALSE]
  /\ body = [w \in Workers |-> <<>>]
  /\ ClientAtRest

\* A request to a protected route arrives; a good token is one the server
\* issued to a registered user.
Arrive(w) ==
  /\ pc[w] = "idle"
  /\ served < MaxArrivals
  /\ served' = served + 1
  /\ \E r \in ServerRequests :
       /\ ~Authenticate(r.header).err => Authenticate(r.header).user_id \in users
       /\ req' = [req EXCEPT ![w] = [op |-> r.op, user_id |-> 0, param |-> r.param,
                                     header |-> r.header, json |-> r.json]]
  /\ pc' = [pc EXCEPT ![w] = "auth"]
  /\ resp' = [resp EXCEPT ![w] = NoResp]
  /\ dbCalls' = [dbCalls EXCEPT ![w] = 0]
  /\ failed' = [failed EXCEPT ![w] = FALSE]
  /\ body' = [body EXCEPT ![w] = <<>>]
  /\ UNCHANGED <<users, conns, nextId, now, profile>>
  /\ UNCHANGED clientVars

\* POST /auth/register arrives at the server; the route has no middleware.
ArriveRegister(w) == served < MaxArrivals /\ ReceiveRegister(w)

\* authMiddleware: answer 401 and abort, or set user_id and call the handler.
authMiddleware(w) ==
  /\ pc[w] = "auth"
  /\ LET claims == Authenticate(req[w].header)
     IN IF claims.err
        THEN /\ Reply(w, StatusUnauthorized, "unauthorized")
             /\ req' = req
        ELSE /\ req' = [req EXCEPT ![w].user_id = claims.user_id]
             /\ Goto(w, req[w].op)
  /\ UNCHANGED <<users, conns, nextId, now, dbCalls, served, profile, failed, body>>
  /\ UNCHANGED clientVars

ServerNext ==
  \/ \E w \in Workers : Arrive(w)
  \/ \E w \in Workers : authMiddleware(w)
  \/ \E w \in Workers : SendParse(w)
  \/ \E w \in Workers : SendCheckUser(w)
  \/ \E w \in Workers : SendCheckConn(w)
  \/ \E w \in Workers : SendInsert(w)
  \/ \E w \in Workers : AcceptRequest(w)
  \/ \E w \in Workers : DeclineRequest(w)
  \/ \E w \in Workers : RemoveFriend(w)
  \/ \E w \in Workers : getUserByID(w)
  \/ \E w \in Workers : getCurrentUser(w)
  \/ \E w \in Workers : UpdateProfile(w)
  \/ \E w \in Workers : ArriveRegister(w)
  \/ \E w \in Workers : RegisterBind(w)
  \/ \E w \in Workers : RegisterCheckEmail(w)
  \/ \E w \in Workers : RegisterCheckUsername(w)
  \/ \E w \in Workers : RegisterInsert(w)
  \/ Tick

\* The server: the public register route and the protected routes behind
\* authMiddleware.
ServerSpec == ServerInit /\ [][ServerNext]_vars

\* ---------------------------------------------------------------- login
\* The binding tags of LoginRequest.
ValidLoginRequest(j) == ValidEmail(j.email) /\ Len(j.password) >= 1

\* auth.CheckPassword: the password is the one the hash was made from.
CheckPassword(hashedPassword, password) == hashedPassword = HashPassword(password)

\* The login bodies tried: a registered and an unregistered email, each with
\* the right and a wrong password, and one body for each binding tag broken.
LoginBodies ==
  {[email |-> e, password |-> pw] :
     e \in {AnnEmail, CatEmail}, pw \in {GoodPassword, OtherPassword}}
  \cup {[email |-> <<"a", "x">>, password |-> GoodPassword],
        [email |-> AnnEmail, password |-> <<>>]}

\* login's answer: status, error code and message, and the account on success.
LoginResult_UserNotFound(us, prof, j) ==
  IF ~ValidLoginRequest(j)
  THEN [status |-> StatusBadRequest, error |-> "invalid_request", message |-> "binding", id |-> 0]
  ELSE IF GetUserByEmail(us, prof, j.email).err
  THEN [status |-> StatusNotFound, error |-> "user_not_found",
        message |-> "User not found", id |-> 0]
  ELSE LET u == CHOOSE u \in us : prof[u].email = j.email
       IN IF ~CheckPassword(prof[u].hashed_password, j.password)
          THEN [status |-> StatusUnauthorized, error |-> "invalid_credentials",
                message |-> "Invalid email or password", id |-> 0]
          ELSE [status |-> StatusOK, error |-> "none", message |-> "none", id |-> u]

LoginResult(us, prof, j) ==
  IF ~ValidLoginRequest(j)
  THEN [status |-> StatusBadRequest, error |-> "invalid_request", message |-> "binding", id |-> 0]
  ELSE IF GetUserByEmail(us, prof, j.email).err
  THEN [status |-> StatusUnauthorized, error |-> "invalid_credentials",
        message |-> "Invalid email or password", id |-> 0]
  ELSE LET u == CHOOSE u \in us : prof[u].email = j.email
       IN IF ~CheckPassword(prof[u].hashed_password, j.password)
          THEN [status |-> StatusUnauthorized, error |-> "invalid_credentials",
                message |-> "Invalid email or password", id |-> 0]
          ELSE [status |-> StatusOK, error |-> "none", message |-> "none", id |-> u]

\* POST /auth/login arrives (no token needed). The handler writes nothing, so
\* any number of logins may be served.
ReceiveLogin(w) ==
  /\ pc[w] = "idle"
  /\ \E j \in LoginBodies :
       req' = [req EXCEPT ![w] =
                 [op |-> "login", user_id |-> 0, param |-> "none", json |-> j]]
  /\ pc' = [pc EXCEPT ![w] = "login"]
  /\ resp' = [resp EXCEPT ![w] = NoResp]
  /\ dbCalls' = [dbCalls EXCEPT ![w] = 0]
  /\ failed' = [failed EXCEPT ![w] = FALSE]
  /\ body' = [body EXCEPT ![w] = <<>>]
  /\ UNCHANGED <<users, conns, nextId, now, served, profile>>
  /\ UNCHANGED clientVars

\* login: bind the body, look the email up, check the password, answer.
\* Token signing is a library call taken to succeed.
login(w) ==
  /\ pc[w] = "login"
  /\ LET r == LoginResult(users, profile, req[w].json)
     IN /\ Reply(w, r.status, r.error)
        /\ body' = [body EXCEPT ![w] =
                      IF r.status = StatusOK
                      THEN [token |-> [user_id |-> r.id, email |-> profile[r.id].email],
                            user |-> ToAuth(r.id, profile[r.id])]
                      ELSE [message |-> r.message]]
        /\ dbCalls' = [dbCalls EXCEPT ![w] = IF ValidLoginRequest(req[w].json) THEN 1 ELSE 0]
  /\ UNCHANGED <<users, conns, nextId, now, req, served, profile, failed>>
  /\ UNCHANGED clientVars

LoginNext ==
  \/ \E w \in Workers : ReceiveLogin(w)
  \/ \E w \in Workers : login(w)

\* The login route over the stores with one or both seed accounts.
LoginSpec == ServerInit /\ [][LoginNext]_vars

\* ---------------------------------------------------------------- client
\* Timer(const Duration(milliseconds: 500), ...) in _onSearchChanged.
DebounceMs == 500

\* limit = 20, the default of ApiClient.searchUsers. It lies within
\* 1..MaxLimit, so the handler passes it on to the store.
SearchLimit == 20

\* The most search calls one client session issues.
MaxCalls == 2

\* The texts typed into the search field: nothing, "j " (one character once
\* trimmed), "jo", and " ja" (two characters once trimmed).
Texts == {<<>>, <<"j", " ">>, <<"j", "o">>, <<" ", "j", "a">>}

\* String.trim(): leading and trailing spaces removed.
Trim(s) ==
  LET inked == {i \in DOMAIN s : s[i] # " "}
  IN IF inked = {} THEN <<>>
     ELSE SubSeq(s, CHOOSE i \in inked : \A k \in inked : i <= k,
                    CHOOSE i \in inked : \A k \in inked : i >= k)

\* The test of the timer callback: query.trim().isNotEmpty &&
\* query.trim().length >= 2.
Searchable_NonEmpty(query) == Len(Trim(query)) >= 1

Searchable(query) == Len(Trim(query)) >= 1 /\ Len(Trim(query)) >= 2

\* if (_debounce?.isActive ?? false) _debounce!.cancel(): the active timers
\* that remain.
Cancel_Never(ts, d) == ts

Cancel(ts, d) == ts \ {d}

\* A timer d milliseconds later; once due it stays due until it fires.
Later(t, d) ==
  [t EXCEPT !.elapsed = IF @ + d > DebounceMs THEN DebounceMs ELSE @ + d]

\* The Authorization header onRequest builds from the stored token.
Header(tok, exp) ==
  IF tok = "none" THEN ""
  ELSE IF exp THEN "Bearer expired"
  ELSE IF tok = "tok-1" THEN "Bearer tok-1" ELSE "Bearer tok-2"

\* jwtManager.GenerateToken for a user.
GenerateToken(id) == IF id = 1 THEN "tok-1" ELSE "tok-2"

\* The logins tried on the login screen: john_doe's email with the right and
\* with a wrong password.
LoginAttempts ==
  {[email |-> AnnEmail, password |-> pw] : pw \in {GoodPassword, OtherPassword}}
NoLogin == [email |-> <<>>, password |-> <<>>]

At(label) == [at |-> label, json |-> NoLogin]

\* The app starts against a backend holding the three search accounts; the
\* secure storage may hold the token of an earlier run, expired or not.
ClientInit ==
  /\ users = UserIds
  /\ profile = SearchAccounts
  /\ conns = {}
  /\ nextId = 1
  /\ now = 0
  /\ pc = [w \in Workers |-> "idle"]
  /\ req = [w \in Workers |-> NoReq]
  /\ resp = [w \in Workers |-> NoResp]
  /\ dbCalls = [w \in Workers |-> 0]
  /\ served = 0
  /\ failed = [w \in Workers |-> FALSE]
  /\ body = [w \in Workers |-> <<>>]
  /\ text = <<>>
  /\ timers = {}
  /\ debounce = NoTimer
  /\ keystroke = NoKey
  /\ calls = <<>>
  /\ state = ConnectionsState
  /\ auth_token \in {"none", GenerateToken(1)}
  /\ expired \in {e \in BOOLEAN : e => auth_token # "none"}
  /\ authState = AuthState
  /\ authPc = At("build")

\* AuthNotifier.build -> _checkAuthStatus: with a stored token, fetch the
\* current user; on failure delete the token. copyWith(user: null) keeps the
\* user the state has.
CheckAuthStatus ==
  /\ authPc = At("build")
  /\ authPc' = At("idle")
  /\ IF auth_token = "none"
     THEN UNCHANGED <<auth_token, expired, authState>>
     ELSE LET a == Authenticate(Header(auth_token, expired))
          IN IF ~a.err
             THEN /\ authState' = [authState EXCEPT !.user = a.user_id, !.error = FALSE]
                  /\ UNCHANGED <<auth_token, expired>>
             ELSE /\ auth_token' = "none"
                  /\ expired' = FALSE
                  /\ authState' = [authState EXCEPT !.error = FALSE]
  /\ UNCHANGED <<text, timers, debounce, keystroke, calls, state>>
  /\ UNCHANGED serverVars

\* AuthNotifier.login up to the await: the login screen is shown only while
\* no user is set (router redirect).
LoginPressed ==
  /\ authPc = At("idle")
  /\ authState.user = NoUser
  /\ \E j \in LoginAttempts : authPc' = [at |-> "login", json |-> j]
  /\ authState' = [authState EXCEPT !.isLoading = TRUE, !.error = FALSE]
  /\ UNCHANGED <<text, timers, debounce, keystroke, calls, state, auth_token, expired>>
  /\ UNCHANGED serverVars

\* ApiClient.login: on 200 the token is written to storage; on 401 the
\* interceptor deletes the stored token and AuthNotifier.login records the
\* error.
LoginResponse ==
  /\ authPc.at = "login"
  /\ LET r == LoginResult(users, profile, authPc.json)
     IN IF r.status = StatusOK
        THEN /\ auth_token' = GenerateToken(r.id)
             /\ expired' = FALSE
             /\ authPc' = [authPc EXCEPT !.at = "stored"]
             /\ UNCHANGED authState
        ELSE /\ auth_token' = IF r.status = StatusUnauthorized THEN "none" ELSE auth_token
             /\ expired' = IF r.status = StatusUnauthorized THEN FALSE ELSE expired
             /\ authPc' = At("idle")
             /\ authState' = [authState EXCEPT !.isLoading = FALSE, !.error = TRUE]
  /\ UNCHANGED <<text, timers, debounce, keystroke, calls, state>>
  /\ UNCHANGED serverVars

\* AuthNotifier.login after the await: state.copyWith(user: response.user).
LoginDone ==
  /\ authPc.at = "stored"
  /\ authState' = [user |-> LoginResult(users, profile, authPc.json).id,
                   isLoading |-> FALSE, error |-> FALSE]
  /\ authPc' = At("idle")
  /\ UNCHANGED <<text, timers, debounce, keystroke, calls, state, auth_token, expired>>
  /\ UNCHANGED serverVars

\* AuthNotifier.logout, reached from the profile screen: the search screen
\* has been disposed (its timer cancelled, its text gone), the token is
\* deleted and the state is const AuthState().
Logout ==
  /\ authPc = At("idle")
  /\ authState.user # NoUser
  /\ auth_token' = "none"
  /\ expired' = FALSE
  /\ authState' = AuthState
  /\ text' = <<>>
  /\ timers' = {}
  /\ debounce' = NoTimer
  /\ keystroke' = NoKey
  /\ UNCHANGED <<calls, state, authPc>>
  /\ UNCHANGED serverVars

\* The stored token passes its expiry.
TokenExpires ==
  /\ auth_token # "none"
  /\ ~expired
  /\ expired' = TRUE
  /\ UNCHANGED <<text, timers, debounce, keystroke, calls, state, auth_token, authState, authPc>>
  /\ UNCHANGED serverVars

\* Time passes on the client.
Elapse ==
  /\ \E d \in {DebounceMs \div 2, DebounceMs} :
       /\ timers' = {Later(t, d) : t \in timers}
       /\ debounce' = IF debounce = NoTimer THEN NoTimer ELSE Later(debounce, d)
       /\ keystroke' = IF keystroke = NoKey THEN NoKey
                       ELSE [keystroke EXCEPT
                               !.since = IF @ + d > DebounceMs THEN DebounceMs ELSE @ + d]
  /\ <<timers', debounce', keystroke'>> # <<timers, debounce, keystroke>>
  /\ UNCHANGED <<text, calls, state, auth_token, expired, authState, authPc>>
  /\ UNCHANGED serverVars

\* TextField.onChanged -> _onSearchChanged(value): the search screen is shown
\* only while a user is set.
OnSearchChanged ==
  /\ authState.user # NoUser
  /\ \E value \in Texts \ {text} :
       LET t == [query |-> value, elapsed |-> 0]
       IN /\ text' = value
          /\ timers' = Cancel(timers, debounce) \cup {t}
          /\ debounce' = t
          /\ keystroke' = [value |-> value, since |-> 0]
  /\ UNCHANGED <<calls, state, auth_token, expired, authState, authPc>>
  /\ UNCHANGED serverVars

\* The clear button (shown while the text is not empty):
\* _searchController.clear() and clearSearchResults(). A controller change
\* does not call onChanged.
ClearPressed ==
  /\ authState.user # NoUser
  /\ text # <<>>
  /\ text' = <<>>
  /\ state' = [state EXCEPT !.searchResults = <<>>, !.error = FALSE]
  /\ UNCHANGED <<timers, debounce, keystroke, calls, auth_token, expired, authState, authPc>>
  /\ UNCHANGED serverVars

\* The timer callback of _onSearchChanged runs, and with it
\* ConnectionsNotifier.searchUsers up to its await, or clearSearchResults.
\* The request goes out with the header built from the stored token;
\* authMiddleware decides on it.
DebounceFires ==
  /\ \E t \in timers :
       /\ t.elapsed >= DebounceMs
       /\ timers' = timers \ {t}
       /\ debounce' = IF debounce = t THEN NoTimer ELSE debounce
       /\ IF Searchable(t.query)
          THEN IF Trim(Trim(t.query)) = <<>>
               THEN /\ state' = [state EXCEPT !.searchResults = <<>>, !.error = FALSE]
                    /\ calls' = calls
               ELSE /\ Len(calls) < MaxCalls
                    /\ state' = [state EXCEPT !.isLoading = TRUE, !.error = FALSE]
                    /\ calls' = Append(calls,
                         [query |-> Trim(t.query),
                          status |-> IF Authenticate(Header(auth_token, expired)).err
                                     THEN StatusUnauthorized ELSE StatusOK,
                          done |-> FALSE])
          ELSE /\ state' = [state EXCEPT !.searchResults = <<>>, !.error = FALSE]
               /\ calls' = calls
  /\ UNCHANGED <<text, keystroke, auth_token, expired, authState, authPc>>
  /\ UNCHANGED serverVars

\* The response of a search call arrives, in any order: on 200
\* ConnectionsNotifier.searchUsers stores the results; on 401 the interceptor
\* deletes the stored token and the catch branch records the error.
SearchResponse ==
  /\ \E i \in DOMAIN calls :
       /\ ~calls[i].done
       /\ calls' = [calls EXCEPT ![i].done = TRUE]
       /\ IF calls[i].status = StatusOK
          THEN /\ \E found \in SearchUsers(users, profile, calls[i].query, SearchLimit) :
                    state' = [searchResults |-> found, isLoading |-> FALSE, error |-> FALSE]
               /\ UNCHANGED <<auth_token, expired>>
          ELSE /\ state' = [state EXCEPT !.isLoading = FALSE, !.error = TRUE]
               /\ auth_token' = "none"
               /\ expired' = FALSE
  /\ UNCHANGED <<text, timers, debounce, keystroke, authState, authPc>>
  /\ UNCHANGED serverVars

ClientNext ==
  \/ CheckAuthStatus
  \/ LoginPressed
  \/ LoginResponse
  \/ LoginDone
  \/ Logout
  \/ TokenExpires
  \/ Elapse
  \/ OnSearchChanged
  \/ ClearPressed
  \/ DebounceFires
  \/ SearchResponse

\* One client session: authentication and the search screen.
ClientSpec == ClientInit /\ [][ClientNext]_vars

\* ================================================================ properties
\* Helpers of the properties: the caller and the parsed path parameter of the
\* request worker w handles, and the step with which w writes its response.
Caller(w) == req[w].user_id
Named(w) == ParseUUID(req[w].param)
Replies(w, op) == pc[w] = op /\ pc'[w] = "idle"
Answered(w, op) == pc[w] = "idle" /\ req[w].op = op
Pending(cs) == {c \in cs : c.status = StatusPending}
Accepted(cs) == {c \in cs : c.status = StatusAccepted}
SendSteps == {"send", "sendCheckUser", "sendCheckConn", "sendInsert"}

\* C1: in every reachable state at most one connection record exists for any
\* unordered pair of users, also when the check and the insert of concurrent
\* sendRequest handlers interleave.
C1_OneRecordPerPair ==
  \A x \in UserIds, y \in UserIds : Cardinality(Between(conns, x, y)) <= 1

\* C2: while an edge between A and B exists, a sendRequest between the two, in
\* either direction, that has not yet passed its existence check ends with
\* 409 connection_exists, never reaches the insert, and changes no record.
C2_LaterSendConflicts ==
  [][\A w \in Workers :
       ( /\ pc[w] \in {"send", "sendCheckUser", "sendCheckConn"}
         /\ pc'[w] # pc[w]
         /\ ~Named(w).err
         /\ Caller(w) # Named(w).id
         /\ Between(conns, Caller(w), Named(w).id) # {} )
       => /\ conns' = conns
          /\ pc'[w] # "sendInsert"
          /\ pc'[w] = "idle" =>
               resp'[w] = [status |-> StatusConflict, error |-> "connection_exists"]]_vars

\* C2 witness: a sendRequest(B,A) was answered 409 while the edge A->B exists.
C2_Witness ==
  \E w \in Workers :
    /\ Answered(w, "send")
    /\ resp[w] = [status |-> StatusConflict, error |-> "connection_exists"]
    /\ ~Named(w).err
    /\ Directed(conns, Named(w).id, Caller(w)) # {}

\* C3: a record keeps its status or goes from pending to accepted (or is
\* deleted); a record that appears is pending.
C3_StatusMonotone ==
  [][ /\ \A c \in conns, d \in conns' :
            d.id = c.id =>
              \/ d.status = c.status
              \/ (c.status = StatusPending /\ d.status = StatusAccepted)
      /\ \A d \in conns' :
            d.id \notin {c.id : c \in conns} => d.status = StatusPending ]_vars

\* C3 witness: an accept was answered 200 and the record it named is accepted.
C3_Witness ==
  \E w \in Workers :
    /\ Answered(w, "accept")
    /\ resp[w].status = StatusOK
    /\ Accepted(Directed(conns, Named(w).id, Caller(w))) # {}

\* C4: an accept by X naming Y never touches the records X->Y; it succeeds
\* when a pending record Y->X exists and then that record is accepted; when the
\* pair's only record is the pending X->Y (X is its requester) it is answered
\* 404 and the record stays pending.
C4_AcceptDirectional ==
  [][\A w \in Workers :
       (Replies(w, "accept") /\ ~Named(w).err) =>
         LET X == Caller(w)
             Y == Named(w).id
         IN /\ Directed(conns', X, Y) = Directed(conns, X, Y)
            /\ Pending(Directed(conns, Y, X)) # {} =>
                 /\ resp'[w].status = StatusOK
                 /\ Directed(conns', Y, X) # {}
                 /\ Pending(Directed(conns', Y, X)) = {}
                 /\ {c.id : c \in Directed(conns', Y, X)} = {c.id : c \in Directed(conns, Y, X)}
            /\ (Pending(Directed(conns, X, Y)) # {} /\ Directed(conns, Y, X) = {}) =>
                 /\ resp'[w].status = StatusNotFound
                 /\ conns' = conns]_vars

\* C4 witness: the requester's accept of its own pending request was answered 404.
C4_Witness ==
  \E w \in Workers :
    /\ Answered(w, "accept")
    /\ resp[w].status = StatusNotFound
    /\ ~Named(w).err
    /\ Pending(Directed(conns, Caller(w), Named(w).id)) # {}
    /\ Directed(conns, Named(w).id, Caller(w)) = {}

\* C5: a sendRequest whose addressee is the caller is answered 400
\* invalid_request before any storage call, and no record ever has
\* requester = addressee.
C5_SelfRequestRejected ==
  [][ /\ \A w \in Workers :
            ( /\ pc[w] \in SendSteps
              /\ pc'[w] # pc[w]
              /\ ~Named(w).err
              /\ Caller(w) = Named(w).id )
            => /\ pc[w] = "send"
               /\ pc'[w] = "idle"
               /\ resp'[w] = [status |-> StatusBadRequest, error |-> "invalid_request"]
               /\ dbCalls'[w] = 0
               /\ conns' = conns
      /\ \A c \in conns' : c.requester_id # c.addressee_id ]_vars

\* C5 witness: a self-request was answered 400 with no storage call made.
C5_Witness ==
  \E w \in Workers :
    /\ Answered(w, "send")
    /\ ~Named(w).err
    /\ Caller(w) = Named(w).id
    /\ resp[w].status = StatusBadRequest
    /\ dbCalls[w] = 0

\* C6: an accept by the addressee naming the requester is answered 404
\* request_not_found and changes no record whenever no record with that
\* requester, that addressee and status pending exists.
C6_AcceptNotFound ==
  [][\A w \in Workers :
       ( /\ Replies(w, "accept")
         /\ ~Named(w).err
         /\ Pending(Directed(conns, Named(w).id, Caller(w))) = {} )
       => /\ resp'[w] = [status |-> StatusNotFound, error |-> "request_not_found"]
          /\ conns' = conns]_vars

\* C6 witness: a second accept of an already accepted edge was answered 404.
C6_Witness ==
  \E w \in Workers :
    /\ Answered(w, "accept")
    /\ resp[w] = [status |-> StatusNotFound, error |-> "request_not_found"]
    /\ Accepted(Directed(conns, Named(w).id, Caller(w))) # {}

\* C7: a decline by X naming Y deletes exactly the pending records Y->X and is
\* answered 200; when there is none (X is the requester, the edge is accepted,
\* or no edge exists) it is answered 404 and deletes nothing.
C7_DeclineOnlyPendingByAddressee ==
  [][\A w \in Workers :
       (Replies(w, "decline") /\ ~Named(w).err) =>
         LET m == Pending(Directed(conns, Named(w).id, Caller(w)))
         IN IF m # {}
            THEN conns' = conns \ m /\ resp'[w].status = StatusOK
            ELSE conns' = conns /\ resp'[w].status = StatusNotFound]_vars

\* C7 witness: a decline against an accepted edge was answered 404 and the
\* edge is still there.
C7_Witness ==
  \E w \in Workers :
    /\ Answered(w, "decline")
    /\ resp[w].status = StatusNotFound
    /\ Accepted(Directed(conns, Named(w).id, Caller(w))) # {}

\* C8: a remove by X naming Y deletes exactly the accepted records between X
\* and Y, whichever of the two is the requester, and is answered 200; when
\* there is none it is answered 404 friendship_not_found and deletes nothing,
\* so a pending record is never removed by it.
C8_RemoveSymmetric ==
  [][\A w \in Workers :
       (Replies(w, "remove") /\ ~Named(w).err) =>
         LET m == Accepted(Between(conns, Caller(w), Named(w).id))
         IN /\ IF m # {}
               THEN conns' = conns \ m /\ resp'[w].status = StatusOK
               ELSE /\ conns' = conns
                    /\ resp'[w] = [status |-> StatusNotFound, error |-> "friendship_not_found"]
            /\ Pending(conns) \subseteq conns']_vars

\* C8 witness: the addressee of the original request (it answered the accept)
\* removed the friendship and was answered 200.
C8_Witness ==
  \E w \in Workers, v \in Workers :
    /\ Answered(w, "remove") /\ resp[w].status = StatusOK
    /\ Answered(v, "accept") /\ resp[v].status = StatusOK
    /\ req[v].user_id = req[w].user_id
    /\ req[v].param = req[w].param
    /\ Between(conns, Caller(w), Named(w).id) = {}

\* C9: a remove for a pair with no accepted edge (the connection has been
\* removed) is answered 404 friendship_not_found, leaves the records
\* unchanged, and leaves a state in which a remove by either party fails again.
C9_RemoveIdempotent ==
  [][\A w \in Workers :
       ( /\ Replies(w, "remove")
         /\ ~Named(w).err
         /\ Accepted(Between(conns, Caller(w), Named(w).id)) = {} )
       => /\ resp'[w] = [status |-> StatusNotFound, error |-> "friendship_not_found"]
          /\ conns' = conns
          /\ RemoveConnection(conns', Caller(w), Named(w).id).err
          /\ RemoveConnection(conns', Named(w).id, Caller(w)).err]_vars

\* C9 witness: one remove for the pair was answered 200 and another, by the
\* other party, 404.
C9_Witness ==
  \E w \in Workers, v \in Workers :
    /\ Answered(v, "remove") /\ resp[v].status = StatusOK
    /\ Answered(w, "remove")
    /\ resp[w] = [status |-> StatusNotFound, error |-> "friendship_not_found"]
    /\ ~Named(w).err /\ ~Named(v).err
    /\ Caller(w) = Named(v).id
    /\ Named(w).id = Caller(v)
    /\ Caller(w) # Caller(v)

\* C10: a sendRequest whose addressee is a well-formed identifier of no user
\* never reaches the existence check or the insert, is answered 404
\* user_not_found, and creates no record.
C10_UnknownAddressee ==
  [][\A w \in Workers :
       ( /\ pc[w] \in SendSteps
         /\ pc'[w] # pc[w]
         /\ ~Named(w).err
         /\ Named(w).id \notin users )
       => /\ conns' = conns
          /\ pc'[w] \notin {"sendCheckConn", "sendInsert"}
          /\ pc'[w] = "idle" =>
               resp'[w] = [status |-> StatusNotFound, error |-> "user_not_found"]]_vars

\* C10 witness: a sendRequest to an identifier of no user was answered 404.
C10_Witness ==
  \E w \in Workers :
    /\ Answered(w, "send")
    /\ ~Named(w).err
    /\ Named(w).id \notin users
    /\ resp[w] = [status |-> StatusNotFound, error |-> "user_not_found"]
    /\ dbCalls[w] = 1

\* C11: a sendRequest answered 201 has added exactly one record, with a fresh
\* id, the caller as requester, the named user as addressee and status
\* pending, and has left every other record as it was.
C11_SendAddsOneRecord ==
  [][\A w \in Workers :
       (Replies(w, "sendInsert") /\ resp'[w].status = StatusCreated) =>
         \E c \in conns' :
           /\ c \notin conns
           /\ conns' = conns \cup {c}
           /\ c.id \notin {d.id : d \in conns}
           /\ c.requester_id = Caller(w)
           /\ c.addressee_id = Named(w).id
           /\ c.status = StatusPending]_vars

\* C11 witness: a sendRequest was answered 201, its pending record exists and
\* so does another record.
C11_Witness ==
  \E w \in Workers :
    /\ Answered(w, "send")
    /\ resp[w].status = StatusCreated
    /\ Pending(Directed(conns, Caller(w), Named(w).id)) # {}
    /\ Cardinality(conns) = 2

\* C12: a sendRequest whose insert hits UNIQUE(requester_id, addressee_id),
\* the record having been created by a concurrent call for the same ordered
\* pair, creates no second record and is answered 409.
C12_UniqueViolationIsConflict ==
  [][\A w \in Workers :
       (Replies(w, "sendInsert") /\ Directed(conns, Caller(w), Named(w).id) # {}) =>
         /\ conns' = conns
         /\ resp'[w].status = StatusConflict]_vars

\* C17: a decline or a remove answered 200 leaves the pair with no record, so
\* that the existence check of a new sendRequest in either direction finds
\* nothing.
C17_BackToNone ==
  [][\A w \in Workers :
       ( /\ Replies(w, "decline") \/ Replies(w, "remove")
         /\ resp'[w].status = StatusOK )
       => /\ Between(conns', Caller(w), Named(w).id) = {}
          /\ GetConnection(conns', Caller(w), Named(w).id).err
          /\ GetConnection(conns', Named(w).id, Caller(w)).err]_vars

\* C16: a request during which a storage call failed in the store is over
\* with that call and has been answered 500: it is not answered 404 or 409 and
\* does not carry on as though the lookup had found nothing.
C16_FailureIsInternalError ==
  \A w \in Workers :
    failed[w] => pc[w] = "idle" /\ resp[w].status = StatusInternalServerError

\* C13: a register call whose insert finds the email taken, a concurrent call
\* with the same email having created its user after this call's checks, adds
\* no user and is answered 409.
C13_RaceLoserGetsConflict ==
  [][\A w \in Workers :
       ( /\ Replies(w, "regInsert")
         /\ \E u \in users : profile[u].email = req[w].json.email )
       => /\ users' = users
          /\ resp'[w].status = StatusConflict]_vars

\* C14: a register call that has not yet passed the email check while the
\* email is present is answered 409 user_exists; one that has not yet passed
\* the username check while the username is present never reaches the insert
\* and is answered 409, username_taken at the username check; neither creates
\* a user; and no two users share an email or a username.
C14_RegisterUniqueness ==
  [][ /\ \A w \in Workers :
            ( /\ pc[w] \in {"register", "regCheckEmail"}
              /\ pc'[w] # pc[w]
              /\ ValidRegisterRequest(req[w].json)
              /\ \E u \in users : profile[u].email = req[w].json.email )
            => /\ users' = users /\ profile' = profile
               /\ pc'[w] \notin {"regCheckUsername", "regInsert"}
               /\ pc'[w] = "idle" =>
                    resp'[w] = [status |-> StatusConflict, error |-> "user_exists"]
      /\ \A w \in Workers :
            ( /\ pc[w] \in {"register", "regCheckEmail", "regCheckUsername"}
              /\ pc'[w] # pc[w]
              /\ ValidRegisterRequest(req[w].json)
              /\ \E u \in users : profile[u].username = req[w].json.username )
            => /\ users' = users /\ profile' = profile
               /\ pc'[w] # "regInsert"
               /\ pc'[w] = "idle" => resp'[w].status = StatusConflict
               /\ pc[w] = "regCheckUsername" =>
                    resp'[w] = [status |-> StatusConflict, error |-> "username_taken"]
      /\ \A u \in users', v \in users' :
            u # v => /\ profile'[u].email # profile'[v].email
                     /\ profile'[u].username # profile'[v].username ]_vars

\* C14 witness: a register with a fresh email and a taken username was
\* answered 409 username_taken.
C14_Witness ==
  \E w \in Workers :
    /\ Answered(w, "register")
    /\ resp[w] = [status |-> StatusConflict, error |-> "username_taken"]
    /\ ~\E u \in users : profile[u].email = req[w].json.email
    /\ \E u \in users : profile[u].username = req[w].json.username

\* C15: an updateProfile with a valid body for a user id that has no row is
\* answered 404.
C15_UpdateMissingUserNotFound ==
  \A w \in Workers :
    ( /\ Answered(w, "update")
      /\ ValidUpdateProfileRequest(req[w].json)
      /\ req[w].user_id \notin users )
    => resp[w].status = StatusNotFound

\* C18: the answer to listConnections(U) holds each accepted row in which U
\* is requester or addressee exactly once and no other row, each with the
\* public profile of the other party, in ascending order of that party's
\* display name; and B is in U's list exactly when U is in B's list.
C18_ListConnections ==
  \A w \in Workers :
    Answered(w, "connections") =>
      LET U == req[w].user_id
          L == body[w]
          mine == {c \in Accepted(conns) : c.requester_id = U \/ c.addressee_id = U}
      IN /\ {L[i].connection : i \in DOMAIN L} = mine
         /\ Len(L) = Cardinality(mine)
         /\ \A i \in DOMAIN L :
              /\ L[i].user.id # U
              /\ {L[i].user.id, U} = {L[i].connection.requester_id, L[i].connection.addressee_id}
              /\ L[i].user = ToPublic(L[i].user.id, profile[L[i].user.id])
         /\ \A i \in DOMAIN L, j \in DOMAIN L :
              i < j => ~StrLess(L[j].user.display_name, L[i].user.display_name)
         /\ \A B \in users :
              (\E i \in DOMAIN L : L[i].user.id = B)
              <=> (\A s \in GetUserConnections(conns, profile, B) :
                     \E i \in DOMAIN s : s[i].user.id = U)

\* C18 witness: a list of two friends with different display names, the
\* caller being the requester of one edge and the addressee of the other.
C18_Witness ==
  \E w \in Workers :
    /\ Answered(w, "connections")
    /\ Len(body[w]) = 2
    /\ body[w][1].user.display_name # body[w][2].user.display_name
    /\ body[w][1].connection.requester_id # body[w][2].connection.requester_id
    /\ body[w][1].connection.addressee_id # body[w][2].connection.addressee_id

\* C19: the answer to listPendingIncoming(U) holds each pending row whose
\* addressee is U exactly once and no other row (none that U sent, none
\* accepted), each with the requester's public profile, in descending order
\* of creation time.
C19_ListPendingIncoming ==
  \A w \in Workers :
    Answered(w, "pending") =>
      LET U == req[w].user_id
          L == body[w]
          mine == {c \in Pending(conns) : c.addressee_id = U}
      IN /\ {L[i].connection : i \in DOMAIN L} = mine
         /\ Len(L) = Cardinality(mine)
         /\ \A i \in DOMAIN L :
              /\ L[i].connection.requester_id # U
              /\ L[i].connection.status # StatusAccepted
              /\ L[i].user = ToPublic(L[i].connection.requester_id,
                                      profile[L[i].connection.requester_id])
         /\ \A i \in DOMAIN L, j \in DOMAIN L :
              i < j => L[i].connection.created_at >= L[j].connection.created_at

\* C19 witness: a list of two incoming requests created at different times.
C19_Witness ==
  \E w \in Workers :
    /\ Answered(w, "pending")
    /\ Len(body[w]) = 2
    /\ body[w][1].connection.created_at > body[w][2].connection.created_at

\* q occurs in s as a run of consecutive characters.
Substring(q, s) ==
  \E i \in 0..(Len(s) - Len(q)) : SubSeq(s, i + 1, i + Len(q)) = q

\* C20: a search with a non-empty query that did not fill its cap returns a
\* user exactly when the lower-cased query is a literal substring of the
\* user's lower-cased username or lower-cased display name.
C20_LiteralSubstringMatch ==
  \A w \in Workers :
    ( /\ Answered(w, "search")
      /\ req[w].q # <<>>
      /\ Len(body[w]) < Limit(req[w].limit) )
    => {body[w][i].id : i \in DOMAIN body[w]}
       = {id \in users :
            \/ Substring(LowerStr(req[w].q), LowerStr(profile[id].username))
            \/ Substring(LowerStr(req[w].q), LowerStr(profile[id].display_name))}

\* q opens s.
IsPrefix(q, s) == Len(q) <= Len(s) /\ SubSeq(s, 1, Len(q)) = q

\* The tier of user u for query q as the ranking rules word it: 1 for an exact
\* case-insensitive match of either field, 2 for a prefix match, 3 for an
\* inner substring match, 4 for none.
Tier(u, q) ==
  LET lq == LowerStr(q)
      fields == {LowerStr(u.username), LowerStr(u.display_name)}
  IN IF \E f \in fields : f = lq THEN 1
     ELSE IF \E f \in fields : IsPrefix(lq, f) THEN 2
     ELSE IF \E f \in fields : Substring(lq, f) THEN 3
     ELSE 4

\* The search that worker w has answered with a result list.
Found(w) == Answered(w, "search") /\ resp[w].status = StatusOK

\* C21: in a search answer a matching user of a better tier comes before
\* every matching user of a worse tier.
C21_TierOrder ==
  \A w \in Workers :
    Found(w) =>
      \A i \in DOMAIN body[w], j \in DOMAIN body[w] :
        ( /\ i < j
          /\ Tier(body[w][i], req[w].q) <= 3
          /\ Tier(body[w][j], req[w].q) <= 3 )
        => Tier(body[w][i], req[w].q) <= Tier(body[w][j], req[w].q)

\* x comes before y under the tie-break of one tier.
TieBreakBefore(x, y, q) ==
  LET k(u) == <<IF LowerStr(u.username) = LowerStr(q) THEN 0 ELSE 1,
                IF LowerStr(u.display_name) = LowerStr(q) THEN 0 ELSE 1,
                Len(u.username), Len(u.display_name)>>
  IN \/ \E i \in 1..4 : k(x)[i] < k(y)[i] /\ \A j \in 1..(i - 1) : k(x)[j] = k(y)[j]
     \/ k(x) = k(y) /\ StrLess(x.username, y.username)

\* C22: two matching users of one tier come in the order of the tie-break
\* (exact username, exact display name, username length, display-name
\* length, username), and the query has one possible answer.
C22_TieBreakOrder ==
  \A w \in Workers :
    Found(w) =>
      /\ \A i \in DOMAIN body[w], j \in DOMAIN body[w] :
           ( /\ i < j
             /\ Tier(body[w][i], req[w].q) <= 3
             /\ Tier(body[w][i], req[w].q) = Tier(body[w][j], req[w].q) )
           => TieBreakBefore(body[w][i], body[w][j], req[w].q)
      /\ Cardinality(SearchUsers(users, profile, req[w].q, Limit(req[w].limit))) = 1

\* n brought into 1..MaxLimit.
Clamp(n) == IF n < 1 THEN 1 ELSE IF n > MaxLimit THEN MaxLimit ELSE n

\* C23: a search without a limit is answered under the cap DefaultLimit, one
\* with a limit in 1..MaxLimit under that cap, and one with a numeric limit
\* outside 1..MaxLimit is rejected or answered under the limit clamped into
\* 1..MaxLimit; the answer is never longer than the cap.
C23_EffectiveCap ==
  \A w \in Workers :
    (Answered(w, "search") /\ req[w].q # <<>> /\ (req[w].limit = "" \/ ~Atoi(req[w].limit).err))
    => LET n == Atoi(req[w].limit).n
           cap == IF req[w].limit = "" THEN DefaultLimit ELSE Clamp(n)
       IN \/ /\ req[w].limit # ""
             /\ n # Clamp(n)
             /\ resp[w].status = StatusBadRequest
          \/ /\ resp[w].status = StatusOK
             /\ Len(body[w]) <= cap
             /\ body[w] \in SearchUsers(users, profile, req[w].q, cap)

\* C24: a search with an empty query is answered 400 invalid_request without
\* a storage call.
C24_EmptyQueryRejected ==
  \A w \in Workers :
    (Answered(w, "search") /\ req[w].q = <<>>)
    => /\ resp[w].status = StatusBadRequest
       /\ resp[w].error = "invalid_request"
       /\ dbCalls[w] = 0
       /\ body[w] = <<>>

\* C24 witness: an empty query was answered while the store holds accounts
\* that a search for it would return.
C24_Witness ==
  \E w \in Workers :
    /\ Answered(w, "search")
    /\ req[w].q = <<>>
    /\ resp[w].status = StatusBadRequest
    /\ Cardinality(users) >= 2

\* The store holds exactly john_doe and jane_smith, and worker w has answered
\* the search for q with limit 10.
Scenario(w, q) ==
  /\ users = {1, 2}
  /\ Answered(w, "search")
  /\ req[w].q = q
  /\ req[w].limit = "10"

\* The usernames of an answer, in order.
UsernamesOf(L) == [i \in DOMAIN L |-> L[i].username]

\* C25 as stated: search("john", 10) returns exactly [john_doe], of rank 2;
\* search("j", 10) returns john_doe then jane_smith, both of rank 3.
C25_ScenarioAsStated ==
  \A w \in Workers :
    /\ Scenario(w, <<"j", "o", "h", "n">>)
       => /\ UsernamesOf(body[w]) = <<JohnDoe>>
          /\ Rank(body[w][1], req[w].q) = 2
    /\ Scenario(w, <<"j">>)
       => /\ UsernamesOf(body[w]) = <<JohnDoe, JaneSmith>>
          /\ \A i \in DOMAIN body[w] : Rank(body[w][i], req[w].q) = 3

\* C25 amended: search("john", 10) returns exactly [john_doe], of rank 2;
\* search("j", 10) returns john_doe then jane_smith, both of rank 2 (prefix),
\* the shorter username first.
C25_Scenario ==
  \A w \in Workers :
    /\ Scenario(w, <<"j", "o", "h", "n">>)
       => /\ UsernamesOf(body[w]) = <<JohnDoe>>
          /\ Rank(body[w][1], req[w].q) = 2
    /\ Scenario(w, <<"j">>)
       => /\ UsernamesOf(body[w]) = <<JohnDoe, JaneSmith>>
          /\ \A i \in DOMAIN body[w] : Rank(body[w][i], req[w].q) = 2

\* C25 witness: the search for "j" with limit 10 was answered with both users.
C25_Witness ==
  \E w \in Workers : Scenario(w, <<"j">>) /\ Len(body[w]) = 2

\* The store with every email and every password blanked.
Scrub(prof) ==
  [id \in DOMAIN prof |-> [prof[id] EXCEPT !.email = <<>>, !.hashed_password = <<>>]]

PublicFields == {"id", "username", "display_name", "created_at"}

\* The user objects of a response body.
UsersIn(w) ==
  IF req[w].op \in {"connections", "pending"} THEN {body[w][i].user : i \in DOMAIN body[w]}
  ELSE IF req[w].op = "search" THEN {body[w][i] : i \in DOMAIN body[w]}
  ELSE {body[w]}

\* C26: the answers of search, GET /users/:id, listConnections and
\* listPendingIncoming are the answers the same request gets from the store
\* with emails and passwords blanked, and their user objects carry the four
\* public fields only; GET /users/me adds the caller's own email and nothing
\* else; no answer carries a credential.
C26_PublicProjectionOnly ==
  \A w \in Workers :
    (pc[w] = "idle" /\ resp[w].status = StatusOK) =>
      /\ req[w].op = "search"
         => /\ body[w] \in SearchUsers(users, Scrub(profile), req[w].q, Limit(req[w].limit))
            /\ \A u \in UsersIn(w) : DOMAIN u = PublicFields
      /\ req[w].op = "get"
         => /\ body[w] = ToPublic(body[w].id, Scrub(profile)[body[w].id])
            /\ DOMAIN body[w] = PublicFields
      /\ req[w].op = "connections"
         => /\ body[w] \in GetUserConnections(conns, Scrub(profile), req[w].user_id)
            /\ \A u \in UsersIn(w) : DOMAIN u = PublicFields
      /\ req[w].op = "pending"
         => /\ body[w] \in GetPendingConnectionRequests(conns, Scrub(profile), req[w].user_id)
            /\ \A u \in UsersIn(w) : DOMAIN u = PublicFields
      /\ req[w].op = "me"
         => /\ DOMAIN body[w] = PublicFields \cup {"email"}
            /\ body[w].id = req[w].user_id
            /\ body[w].email = profile[req[w].user_id].email

\* C26 witness: one worker has read another user's profile by id while the
\* other has a list of friends, in a store where the emails are dealt the
\* second way.
C26_Witness ==
  \E w \in Workers, v \in Workers :
    /\ Answered(w, "get") /\ resp[w].status = StatusOK
    /\ body[w].id # req[w].user_id
    /\ Answered(v, "connections") /\ Len(body[v]) = 2
    /\ profile[1].email = BobEmail

\* C30: a step of updateProfile for caller U leaves the set of users, every
\* row of every other user, and U's username, email, credential and
\* creation time as they were; when it answers 200, U's display name is the
\* one asked for.
C30_UpdateChangesOnlyDisplayName ==
  [][\A w \in Workers :
       (pc[w] = "update" /\ pc'[w] = "idle") =>
         LET U == req[w].user_id
         IN /\ users' = users
            /\ DOMAIN profile' = DOMAIN profile
            /\ \A id \in users : id # U => profile'[id] = profile[id]
            /\ U \in users =>
                 /\ profile'[U].username = profile[U].username
                 /\ profile'[U].email = profile[U].email
                 /\ profile'[U].hashed_password = profile[U].hashed_password
                 /\ profile'[U].created_at = profile[U].created_at
                 /\ resp'[w].status = StatusOK
                      => profile'[U].display_name = req[w].json.display_name]_vars

\* C30 witness: an update was answered 200 and changed the caller's display
\* name and update time, while another user keeps a different display name.
C30_Witness ==
  \E w \in Workers :
    /\ Answered(w, "update")
    /\ resp[w].status = StatusOK
    /\ req[w].user_id \in users
    /\ profile[req[w].user_id].display_name = BobDisplay
    /\ profile[req[w].user_id].updated_at > profile[req[w].user_id].created_at
    /\ \E o \in users \ {req[w].user_id} : profile[o].display_name = AnnDisplay

\* C27: the step that leaves authMiddleware for a request whose
\* Authorization header is absent, is not exactly "Bearer <token>", or
\* carries a token that fails validation, answers 401 unauthorized and ends
\* the request: no handler position is entered, no storage call is made and
\* the store is unchanged.
C27_UnauthorizedBeforeHandler ==
  [][\A w \in Workers :
       (pc[w] = "auth" /\ pc'[w] # "auth" /\ req[w].header \in BadHeaders) =>
         /\ pc'[w] = "idle"
         /\ resp'[w] = [status |-> StatusUnauthorized, error |-> "unauthorized"]
         /\ dbCalls'[w] = 0
         /\ body'[w] = <<>>
         /\ users' = users /\ profile' = profile
         /\ conns' = conns /\ nextId' = nextId]_vars

\* C27 witness: a remove-friend request with the scheme Basic and an
\* otherwise good token was answered 401 while the store holds a row naming
\* the user the path names.
C27_Witness ==
  \E w \in Workers :
    /\ Answered(w, "remove")
    /\ req[w].header = "Basic tok-1"
    /\ resp[w].status = StatusUnauthorized
    /\ \E c \in conns : c.addressee_id = 2

\* The routes with a user identifier in the path.
PathOps == Ops \cup {"get"}

\* C28: the first handler step of getUserByID, sendRequest, acceptRequest,
\* declineRequest or removeConnection on a path parameter that is not a uuid
\* answers 400 and ends the request, with no storage call and the store
\* unchanged.
C28_MalformedIdIsValidationError ==
  [][\A w \in Workers :
       (pc[w] \in PathOps /\ pc'[w] # pc[w] /\ req[w].param = "not-a-uuid") =>
         /\ pc'[w] = "idle"
         /\ resp'[w].status = StatusBadRequest
         /\ dbCalls'[w] = 0
         /\ users' = users /\ profile' = profile
         /\ conns' = conns /\ nextId' = nextId]_vars

\* C28 witness: a profile read and a remove, both with a malformed
\* identifier, were answered 400 while the store holds a row.
C28_Witness ==
  \E w \in Workers, v \in Workers :
    /\ Answered(w, "get") /\ req[w].param = "not-a-uuid"
    /\ resp[w].status = StatusBadRequest
    /\ Answered(v, "remove") /\ req[v].param = "not-a-uuid"
    /\ resp[v].status = StatusBadRequest
    /\ users = {1, 2}

\* C29: a handler step of sendRequest, acceptRequest, declineRequest or
\* removeConnection leaves every user record unchanged; a handler step of
\* register or updateProfile leaves every connection record unchanged.
C29_GraphAndIdentityFrames ==
  [][\A w \in Workers :
       (pc'[w] # pc[w] /\ pc[w] \notin {"idle", "auth"}) =>
         /\ req[w].op \in Ops => users' = users /\ profile' = profile
         /\ req[w].op \in {"register", "update"} => conns' = conns /\ nextId' = nextId]_vars

\* C29 witness: a registration and a connection request to the new user
\* have both succeeded.
C29_Witness ==
  \E w \in Workers, v \in Workers :
    /\ Answered(w, "register") /\ resp[w].status = StatusCreated
    /\ Answered(v, "send") /\ resp[v].status = StatusCreated
    /\ \E c \in conns : c.addressee_id = body[w].user.id

\* C31: a send request whose addressee is the caller is answered with the
\* status of a ConflictError, 409.
C31_SelfRequestIsConflict ==
  \A w \in Workers :
    ( /\ Answered(w, "send")
      /\ ~Named(w).err
      /\ Named(w).id = Caller(w) )
    => resp[w].status = StatusConflict

\* C35: a step that answers acceptRequest or declineRequest succeeds exactly
\* when a pending record from the named requester to the caller exists at
\* that moment, and then no such pending record is left; a step that answers
\* removeConnection succeeds exactly when an accepted record between the two
\* parties exists, and then none is left; every other answer is 404 and
\* changes nothing. So of the calls that race for one edge one succeeds and
\* the rest get NotFoundError.
C35_ResolvedAtMostOnce ==
  [][\A w \in Workers :
       /\ (Replies(w, "accept") \/ Replies(w, "decline")) /\ ~Named(w).err =>
            LET edge(cs) == {c \in Pending(cs) :
                               c.requester_id = Named(w).id /\ c.addressee_id = Caller(w)}
            IN /\ resp'[w].status = StatusOK <=> edge(conns) # {}
               /\ resp'[w].status = StatusOK => edge(conns') = {}
               /\ resp'[w].status # StatusOK
                    => resp'[w].status = StatusNotFound /\ conns' = conns
       /\ Replies(w, "remove") /\ ~Named(w).err =>
            LET edge(cs) == Accepted(Between(cs, Caller(w), Named(w).id))
            IN /\ resp'[w].status = StatusOK <=> edge(conns) # {}
               /\ resp'[w].status = StatusOK => edge(conns') = {}
               /\ resp'[w].status # StatusOK
                    => resp'[w].status = StatusNotFound /\ conns' = conns]_vars

\* C35 witness: the addressee's accept and decline of the same request have
\* both been answered, one 200 and one 404, and the record is accepted.
C35_Witness ==
  \E w \in Workers, v \in Workers :
    /\ Answered(w, "accept") /\ resp[w].status = StatusOK
    /\ Answered(v, "decline") /\ resp[v].status = StatusNotFound
    /\ Caller(w) = Caller(v) /\ req[w].param = req[v].param
    /\ \E c \in Accepted(conns) :
         c.requester_id = Named(w).id /\ c.addressee_id = Caller(w)

\* C36: a step that answers acceptRequest 200 replaces one pending record
\* from the named requester to the caller by the same record with status
\* accepted and a new update time (identifier, requester, addressee and
\* creation time kept) and leaves every other record as it was.
C36_AcceptChangesOnlyStatus ==
  [][\A w \in Workers :
       (Replies(w, "accept") /\ resp'[w].status = StatusOK) =>
         \E c \in Pending(conns) :
           /\ c.requester_id = Named(w).id /\ c.addressee_id = Caller(w)
           /\ conns' = (conns \ {c})
                       \cup {[c EXCEPT !.status = StatusAccepted, !.updated_at = now]}]_vars

\* C36 witness: an accept was answered 200 after the clock moved, and the
\* accepted record sits beside another record that is still pending.
C36_Witness ==
  \E w \in Workers :
    /\ Answered(w, "accept") /\ resp[w].status = StatusOK
    /\ \E c \in Accepted(conns) :
         /\ c.requester_id = Named(w).id /\ c.addressee_id = Caller(w)
         /\ c.updated_at > c.created_at
    /\ Pending(conns) # {}

\* The email of worker w's login body belongs to no account.
UnknownEmail(w) == \A u \in users : profile[u].email # req[w].json.email

\* The email of worker w's login body belongs to an account whose password
\* is not the one in the body.
WrongPassword(w) ==
  \E u \in users :
    /\ profile[u].email = req[w].json.email
    /\ profile[u].hashed_password # HashPassword(req[w].json.password)

\* C37: a login step changes neither users nor connections; and once a login
\* with an unregistered email and a login with a registered email and a
\* wrong password are both answered, the two answers have the same status,
\* error code and message.
C37_LoginHidesRegistration ==
  [][\A w \in Workers :
       Replies(w, "login") =>
         /\ users' = users /\ profile' = profile /\ conns' = conns
         /\ \A v \in Workers :
              ( /\ pc'[v] = "idle" /\ req[v].op = "login"
                /\ ValidLoginRequest(req[w].json) /\ ValidLoginRequest(req[v].json)
                /\ UnknownEmail(w) /\ WrongPassword(v) )
              => resp'[w] = resp'[v] /\ body'[w] = body'[v]]_vars

\* C37 witness: both kinds of failed login have been answered 401.
C37_Witness ==
  \E w \in Workers, v \in Workers :
    /\ Answered(w, "login") /\ ValidLoginRequest(req[w].json) /\ UnknownEmail(w)
    /\ Answered(v, "login") /\ ValidLoginRequest(req[v].json) /\ WrongPassword(v)
    /\ resp[w].status = StatusUnauthorized
    /\ resp[v].status = StatusUnauthorized

\* A search call is issued in this step.
Issued == Len(calls') > Len(calls)

\* The timer t fires in this step.
Fired(t) ==
  /\ t \in timers /\ t \notin timers' /\ t.elapsed >= DebounceMs
  /\ text' = text /\ authState' = authState

\* No login is under way and no search call is in flight.
Settled == authPc = At("idle") /\ \A i \in DOMAIN calls : calls[i].done

\* C32: in every settled state of the client, a set user (authenticated)
\* implies a stored token: a 401 on an expired token logs the user out.
C32_AuthenticatedHasToken ==
  (Settled /\ authState.user # NoUser) => auth_token # "none"

\* C33: at most one debounce timer is pending; a search call is issued only
\* when DebounceMs have passed since the last keystroke, carries the trimmed
\* text of that keystroke, and leaves no timer behind that could issue a
\* second call for the same burst.
C33_Debounced ==
  [][/\ Cardinality(timers') <= 1
     /\ Issued => /\ keystroke # NoKey
                  /\ keystroke.since >= DebounceMs
                  /\ calls'[Len(calls')].query = Trim(keystroke.value)
                  /\ timers' = {}]_vars

\* C33 witness: after a burst ending in " ja" exactly one call has gone out,
\* for "ja", and no timer is pending.
C33_Witness ==
  /\ Len(calls) = 1 /\ calls[1].query = <<"j", "a">>
  /\ keystroke = [value |-> <<" ", "j", "a">>, since |-> DebounceMs]
  /\ timers = {}

\* C34: every search call carries at least 2 characters, and a debounce that
\* fires for text shorter than 2 characters after trimming issues no call and
\* clears the search results.
C34_MinimumTwoCharacters ==
  [][/\ Issued => Len(calls'[Len(calls')].query) >= 2
     /\ \A t \in timers :
          (Fired(t) /\ Len(Trim(t.query)) < 2)
          => calls' = calls /\ state'.searchResults = <<>>]_vars

\* C34 witness: "jo" was searched and answered with results, then "j " was
\* typed and its debounce fired: the results are gone, no second call.
C34_Witness ==
  /\ Len(calls) = 1 /\ calls[1].done /\ calls[1].status = StatusOK
  /\ text = <<"j", " ">>
  /\ keystroke = [value |-> <<"j", " ">>, since |-> DebounceMs]
  /\ timers = {}
  /\ state.searchResults = <<>>

\* C38: when a response completes the last in-flight search call (all of
\* them answered 200), the displayed results are those of the call issued
\* last.
C38_LatestQueryShown ==
  [][\A i \in DOMAIN calls :
       ( /\ ~calls[i].done /\ calls'[i].done
         /\ \A k \in DOMAIN calls' : calls'[k].done /\ calls'[k].status = StatusOK )
       => state'.searchResults
            \in SearchUsers(users, profile, calls'[Len(calls')].query, SearchLimit)]_vars

\* C39: while the text differs from the last keystroke (the clear button was
\* pressed after it), the search results are empty.
C39_ClearedStaysEmpty ==
  (keystroke # NoKey /\ text # keystroke.value) => state.searchResults = <<>>

====
